---------------------------- MODULE Spec2Model ----------------------------
(***************************************************************************)
(* Risk core of the bybit-trader bot: the RiskManager class                *)
(* (src/src/risk/risk-manager.ts) and the live loop that drives it         *)
(* (TradingBot, src/unnamed/part_009).                                     *)
(*                                                                         *)
(* Numbers.  The source computes in IEEE doubles.  The model computes in   *)
(* exact rationals <<n, d>> (d > 0, lowest terms); the quotient of a       *)
(* division whose divisor may be zero is a tagged value that also has      *)
(* JavaScript's Infinity, -Infinity and NaN.  Rounding error of doubles is *)
(* outside the model.                                                      *)
(*                                                                         *)
(* Time.  Timestamps are milliseconds since the epoch, as Date.getTime().  *)
(***************************************************************************)
EXTENDS Integers, Sequences, FiniteSets, TLC

VARIABLES
    state,           \* RiskManager.state : RiskState
    now,             \* the wall clock read by new Date() / Date.now()
    heartbeatTimer,  \* RiskManager.heartbeatTimer is set (monitor running)
    onKillSwitch,    \* RiskManager.onKillSwitch is set (handler registered)
    handler,         \* the registered handler's invocations
    call,            \* the last call on a RiskManager used on its own; the arguments and
                     \* result of a checkTrade, closePosition
    steps,           \* number of operations performed so far
    bot,             \* the TradingBot that owns the RiskManager, and its scans in progress
    wf               \* a WalkForwardEngine.run: its windows so far and its aggregate

vars == <<state, now, heartbeatTimer, onKillSwitch, handler, call, steps, bot, wf>>

----------------------------------------------------------------------------
(* Bounds of the model *)

\* length of the sequences of operations explored
MaxSteps == 5
\* config.maxConcurrentPositions as passed to the constructor (default 5)
MaxConcurrentPositions == 2
\* scan-timer ticks of the live loop, after the scan that start() awaits
MaxScans == 2
\* checks of the heartbeat monitor while the live loop runs
MaxChecks == 3

----------------------------------------------------------------------------
(* Exact rational arithmetic *)

Abs(x) == IF x < 0 THEN -x ELSE x
Min(a, b) == IF a < b THEN a ELSE b

RECURSIVE GCD(_, _)
GCD(a, b) == IF b = 0 THEN a ELSE GCD(b, a % b)

\* the rational n/d (d # 0) in lowest terms with a positive denominator
Frac(n, d) ==
    LET g == GCD(Abs(n), Abs(d))
        s == IF d < 0 THEN -1 ELSE 1
    IN  <<(s * n) \div g, (s * d) \div g>>

R(n) == <<n, 1>>
Zero == R(0)

RAdd(a, b) == Frac(a[1] * b[2] + b[1] * a[2], a[2] * b[2])
RSub(a, b) == Frac(a[1] * b[2] - b[1] * a[2], a[2] * b[2])
RMul(a, b) == Frac(a[1] * b[1], a[2] * b[2])
RLe(a, b) == a[1] * b[2] <= b[1] * a[2]
RLt(a, b) == a[1] * b[2] < b[1] * a[2]
RGt(a, b) == RLt(b, a)
RAbs(a) == <<Abs(a[1]), a[2]>>

\* a / b as JavaScript computes it: a number, or Infinity, -Infinity, NaN
JsDiv(a, b) ==
    IF b[1] # 0 THEN [k |-> "num", v |-> Frac(a[1] * b[2], a[2] * b[1])]
    ELSE IF a[1] > 0 THEN [k |-> "Infinity", v |-> Zero]
    ELSE IF a[1] < 0 THEN [k |-> "-Infinity", v |-> Zero]
    ELSE [k |-> "NaN", v |-> Zero]

\* x <= c and x > c for a quotient x and a number c (both false on NaN)
JsLe(x, c) == \/ x.k = "-Infinity"
              \/ x.k = "num" /\ RLe(x.v, c)
JsGt(x, c) == \/ x.k = "Infinity"
              \/ x.k = "num" /\ RGt(x.v, c)

\* (x * 100).toFixed(1), in tenths of a percent, rounded half away from zero
ToFixed1Pct(x) ==
    IF x.k # "num" THEN [k |-> x.k, v |-> 0]
    ELSE LET n == Abs(x.v[1]) * 1000
             d == x.v[2]
             q == (2 * n + d) \div (2 * d)
         IN  [k |-> "num", v |-> IF x.v[1] < 0 THEN -q ELSE q]

----------------------------------------------------------------------------
(* Configuration: DEFAULT_RISK_CONFIG *)

maxRiskPerTrade == Frac(2, 100)
dailyDrawdownLimit == Frac(-3, 100)
weeklyDrawdownLimit == Frac(-7, 100)
totalDrawdownLimit == Frac(-15, 100)
weeklyReductionFactor == Frac(5, 10)
maxConcurrentPositions == MaxConcurrentPositions
maxSingleAssetPct == Frac(25, 100)
heartbeatTimeoutMs == 5 * 60 * 1000

\* the period of the heartbeat monitor's setInterval
MonitorIntervalMs == 30 * 1000

----------------------------------------------------------------------------
(* Dates *)

DayMs == 24 * 60 * 60 * 1000

\* Date.getUTCDay(): 0 = Sunday; the epoch was a Thursday
UTCDay(t) == ((t \div DayMs) + 4) % 7

getNextDailyReset(from) == ((from \div DayMs) + 1) * DayMs

getNextWeeklyReset(from) ==
    LET day == UTCDay(from)
        daysUntilMonday == IF day = 0 THEN 1 ELSE 8 - day
    IN  ((from \div DayMs) + daysUntilMonday) * DayMs

\* a Date | null that is null
NullTime == 0 - 1
\* a number | null that is null
NullNum == <<0, 0>>

----------------------------------------------------------------------------
(* WalkForwardEngine (src/backtest/walk-forward.ts).  Of a BacktestResult    *)
(* the model keeps what the aggregation reads: totalTrades and               *)
(* totalReturnPercent.  Left out: the win/loss counts and the maximum        *)
(* drawdown, which are summed up but do not enter the verdict, and the       *)
(* text of verdictReason.                                                    *)

\* DEFAULT_WF_CONFIG
minTrades == 30
maxSharpeThreshold == 3

\* the window run() pushes for the spans of an iteration and its in-sample
\* and out-of-sample BacktestResult
NewWindow(windowIndex, isStart, isEnd, oosStart, oosEnd, isReturn, oosReturn, oosTrades) ==
    LET degradationPct ==
            IF isReturn # Zero
            THEN RMul(JsDiv(RSub(isReturn, oosReturn), RAbs(isReturn)).v, R(100))
            ELSE Zero
    IN  [ windowIndex      |-> windowIndex,
          inSampleStart    |-> isStart,
          inSampleEnd      |-> isEnd,
          outOfSampleStart |-> oosStart,
          outOfSampleEnd   |-> oosEnd,
          oosTrades      |-> oosTrades,
          oosReturn      |-> oosReturn,
          degradationPct |-> degradationPct,
          isOverfit      |-> \/ RGt(degradationPct, R(70))
                             \/ RGt(isReturn, R(50)) /\ RLt(oosReturn, Zero) ]

RECURSIVE SumOver(_, _)
\* f[1] + ... + f[n], rationals
SumOver(f, n) == IF n = 0 THEN Zero ELSE RAdd(SumOver(f, n - 1), f[n])

RECURSIVE ProductOver(_, _)
\* f[1] * ... * f[n], rationals
ProductOver(f, n) == IF n = 0 THEN R(1) ELSE RMul(ProductOver(f, n - 1), f[n])

\* the ratio with the sample deviation of one window taken as 0
Sharpe_NoDeviationOfOne(oosReturns) ==
    LET n == Len(oosReturns)
        avgReturn == JsDiv(SumOver(oosReturns, n), R(n)).v
        squares == [i \in 1..n |-> LET d == RSub(oosReturns[i], avgReturn)
                                   IN  RMul(d, d)]
        variance == IF n > 1 THEN JsDiv(SumOver(squares, n), R(n - 1)).v ELSE Zero
    IN  IF RGt(variance, Zero)
        THEN [ sign   |-> IF RGt(avgReturn, Zero) THEN 1
                          ELSE IF RLt(avgReturn, Zero) THEN -1 ELSE 0,
               square |-> JsDiv(RMul(RMul(avgReturn, avgReturn), R(n)), variance).v ]
        ELSE [sign |-> 0, square |-> Zero]

\* (avgReturn / stdDev) * Math.sqrt(n), a real number kept as its sign and its
\* square; stdDev is 1 for one window, and a stdDev of 0 gives 0
Sharpe(oosReturns) ==
    LET n == Len(oosReturns)
        avgReturn == JsDiv(SumOver(oosReturns, n), R(n)).v
        squares == [i \in 1..n |-> LET d == RSub(oosReturns[i], avgReturn)
                                   IN  RMul(d, d)]
        variance == IF n > 1 THEN JsDiv(SumOver(squares, n), R(n - 1)).v ELSE R(1)
    IN  IF RGt(variance, Zero)
        THEN [ sign   |-> IF RGt(avgReturn, Zero) THEN 1
                          ELSE IF RLt(avgReturn, Zero) THEN -1 ELSE 0,
               square |-> JsDiv(RMul(RMul(avgReturn, avgReturn), R(n)), variance).v ]
        ELSE [sign |-> 0, square |-> Zero]

\* sharpe > threshold, for a threshold >= 0
SharpeGt(sharpe, threshold) ==
    sharpe.sign = 1 /\ RGt(sharpe.square, R(threshold * threshold))

\* the verdict swapped around: an unprofitable strategy fails before its
\* number of trades is looked at
Verdict_ReturnFirst(isOverfit, passesMinTrades, oosReturnPct, avgDegradation) ==
    IF isOverfit THEN "FAIL"
    ELSE IF RLt(oosReturnPct, Zero) THEN "FAIL"
    ELSE IF ~passesMinTrades THEN "WARNING"
    ELSE IF RGt(avgDegradation, R(30)) THEN "WARNING"
    ELSE "PASS"

\* aggregateResults: the final verdict
Verdict(isOverfit, passesMinTrades, oosReturnPct, avgDegradation) ==
    IF isOverfit THEN "FAIL"
    ELSE IF ~passesMinTrades THEN "WARNING"
    ELSE IF RLt(oosReturnPct, Zero) THEN "FAIL"
    ELSE IF RGt(avgDegradation, R(30)) THEN "WARNING"
    ELSE "PASS"

\* WalkForwardEngine.aggregateResults
aggregateResults(windows) ==
    IF Len(windows) = 0
    THEN [ totalTrades |-> 0, oosReturnPct |-> Zero,
           oosSharpe |-> [sign |-> 0, square |-> Zero],
           avgDegradation |-> Zero, isOverfit |-> TRUE,
           overfitReasons |-> {"windows"}, passesMinTrades |-> FALSE,
           verdict |-> "FAIL" ]
    ELSE
    LET n == Len(windows)
        totalTrades == SumOver([i \in 1..n |-> R(windows[i].oosTrades)], n)[1]
        combinedReturn ==
            ProductOver([i \in 1..n |->
                RAdd(R(1), JsDiv(windows[i].oosReturn, R(100)).v)], n)
        totalDegradation == SumOver([i \in 1..n |-> windows[i].degradationPct], n)
        oosReturnPct == RMul(RSub(combinedReturn, R(1)), R(100))
        avgDegradation == JsDiv(totalDegradation, R(n)).v
        oosSharpe == Sharpe([i \in 1..n |-> windows[i].oosReturn])
        overfitWindows == Cardinality({i \in 1..n : windows[i].isOverfit})
        overfitReasons ==
            (IF RGt(R(overfitWindows), RMul(R(n), Frac(1, 2)))
             THEN {"windows"} ELSE {})
            \cup (IF RGt(avgDegradation, R(50)) THEN {"degradation"} ELSE {})
            \cup (IF SharpeGt(oosSharpe, maxSharpeThreshold) THEN {"sharpe"} ELSE {})
        isOverfit == overfitReasons # {}
        passesMinTrades == totalTrades >= minTrades
    IN  [ totalTrades |-> totalTrades, oosReturnPct |-> oosReturnPct,
          oosSharpe |-> oosSharpe, avgDegradation |-> avgDegradation,
          isOverfit |-> isOverfit, overfitReasons |-> overfitReasons,
          passesMinTrades |-> passesMinTrades,
          verdict |-> Verdict(isOverfit, passesMinTrades, oosReturnPct,
                              avgDegradation) ]

NoAggregate == [verdict |-> "none"]

\* DEFAULT_WF_CONFIG: the two periods
DEFAULT_WF_CONFIG == [inSamplePeriod |-> 4320, outOfSamplePeriod |-> 1440]

\* no run of the engine: pc is the position of run(), candles the length of
\* the candle sequence it is given
NoRun == [ pc |-> "idle", config |-> DEFAULT_WF_CONFIG, candles |-> 0, start |-> 0,
           windows |-> << >>, aggregate |-> NoAggregate ]

----------------------------------------------------------------------------
(* Values the operations are called with *)

Symbols == {"BTCUSDT", "ETHUSDT", "SOLUSDT"}

\* construction times: Saturday 1970-01-03 12:00 UTC, so that the first daily
\* reset (Sunday 00:00) comes a day before the first weekly reset (Monday 00:00)
StartTimes == {2 * DayMs + DayMs \div 2}
StartingEquities == {R(1000)}

\* equities reported by the exchange: down 3% (the daily limit) and down 15%
\* (the total limit); new highs come from closing at a profit, an equity of
\* zero from a reseeding, a negative one from closing at a loss
Equities == {R(850), R(970)}
\* equities an operator reseeds with on resetKillSwitch: the starting equity,
\* or nothing left
ResetEquities == {R(0), R(1000)}

\* proposed and opened trades
Trades == { [side |-> "long", quantity |-> R(5), price |-> R(100), leverage |-> 1],
            [side |-> "short", quantity |-> R(200), price |-> R(1), leverage |-> 3] }
ExitPrices == {R(1), R(110)}

\* how far the clock moves between two operations
ClockSteps == {heartbeatTimeoutMs, DayMs}

KillReasons == {"Manual kill"}

----------------------------------------------------------------------------
(* RiskState.  Left out, being written and never read: the timestamp of an  *)
(* EquitySnapshot (equityHistory holds the equities) and a PositionState's  *)
(* openedAt.                                                                *)

NoPct == [k |-> "none", v |-> 0]

NoReason == [kind |-> "null", text |-> "", pct |-> NoPct]

DailyReason(pct) ==
    [kind |-> "halt", text |-> "Daily drawdown limit breached", pct |-> pct]

KillReason(text, pct) == [kind |-> "KILL SWITCH", text |-> text, pct |-> pct]

\* RiskManager.constructor
NewRiskState(startingEquity, t) ==
    [ startingEquity      |-> startingEquity,
      currentEquity       |-> startingEquity,
      peakEquity          |-> startingEquity,
      positions           |-> [x \in {} |-> x],
      equityHistory       |-> << startingEquity >>,
      dailyPnL            |-> Zero,
      weeklyPnL           |-> Zero,
      totalPnL            |-> Zero,
      dailyResetAt        |-> getNextDailyReset(t),
      weeklyResetAt       |-> getNextWeeklyReset(t),
      isHalted            |-> FALSE,
      haltReason          |-> NoReason,
      haltedAt            |-> NullTime,
      lastHeartbeat       |-> t,
      killSwitchTriggered |-> FALSE ]

\* what a kill-switch handler finds of the latch when it is invoked
Latch(s) == [ killSwitchTriggered |-> s.killSwitchTriggered,
              isHalted            |-> s.isHalted,
              haltReason          |-> s.haltReason.kind ]

NewHandler == [ calls |-> 0, running |-> 0, activations |-> 0,
                saw |-> Latch(NewRiskState(Zero, 0)) ]

HasPosition(s, symbol) == symbol \in DOMAIN s.positions
PositionsSize(s) == Cardinality(DOMAIN s.positions)
ExistingNotional(s, symbol) ==
    IF HasPosition(s, symbol) THEN s.positions[symbol].notionalValue ELSE Zero

----------------------------------------------------------------------------
(* RiskManager operations.  They act on m = [state, handler]: the RiskState *)
(* and the record of the kill-switch handler's invocations.                *)

\* (currentEquity - peakEquity) / peakEquity
TotalDrawdown(s) == JsDiv(RSub(s.currentEquity, s.peakEquity), s.peakEquity)

\* RiskManager.isTradeAllowed
isTradeAllowed(s) == ~s.isHalted /\ ~s.killSwitchTriggered

\* triggerKillSwitch without its early return when already triggered
triggerKillSwitch_NoGuard(m, reason) ==
    LET s1 == [m.state EXCEPT !.killSwitchTriggered = TRUE,
                              !.isHalted = TRUE,
                              !.haltReason = reason,
                              !.haltedAt = now]
        h1 == [m.handler EXCEPT !.activations = @ + 1]
    IN  [ state   |-> s1,
          handler |-> IF onKillSwitch
                      THEN [h1 EXCEPT !.calls = @ + 1,
                                      !.running = @ + 1,
                                      !.saw = Latch(s1)]
                      ELSE h1 ]

\* triggerKillSwitch invoking the handler before it sets the latch
triggerKillSwitch_HandlerFirst(m, reason) ==
    IF m.state.killSwitchTriggered THEN m
    ELSE LET s1 == [m.state EXCEPT !.killSwitchTriggered = TRUE,
                                   !.isHalted = TRUE,
                                   !.haltReason = reason,
                                   !.haltedAt = now]
             h1 == [m.handler EXCEPT !.activations = @ + 1]
         IN  [ state   |-> s1,
               handler |-> IF onKillSwitch
                           THEN [h1 EXCEPT !.calls = @ + 1,
                                           !.running = @ + 1,
                                           !.saw = Latch(m.state)]
                           ELSE h1 ]

\* RiskManager.triggerKillSwitch, up to the await of the handler: the handler
\* is invoked (and starts running) after the four assignments
triggerKillSwitch(m, reason) ==
    IF m.state.killSwitchTriggered THEN m
    ELSE LET s1 == [m.state EXCEPT !.killSwitchTriggered = TRUE,
                                   !.isHalted = TRUE,
                                   !.haltReason = reason,
                                   !.haltedAt = now]
             h1 == [m.handler EXCEPT !.activations = @ + 1]
         IN  [ state   |-> s1,
               handler |-> IF onKillSwitch
                           THEN [h1 EXCEPT !.calls = @ + 1,
                                           !.running = @ + 1,
                                           !.saw = Latch(s1)]
                           ELSE h1 ]

\* checkPeriodResets lifting the halt at the daily reset whatever the latch
checkPeriodResets_NoKillGuard(s) ==
    LET d == IF now >= s.dailyResetAt
             THEN LET s1 == [s EXCEPT !.dailyPnL = Zero,
                                      !.dailyResetAt = getNextDailyReset(now)]
                  IN  IF s1.isHalted
                      THEN [s1 EXCEPT !.isHalted = FALSE,
                                      !.haltReason = NoReason,
                                      !.haltedAt = NullTime]
                      ELSE s1
             ELSE s
    IN  IF now >= d.weeklyResetAt
        THEN [d EXCEPT !.weeklyPnL = Zero,
                       !.weeklyResetAt = getNextWeeklyReset(now)]
        ELSE d

\* checkPeriodResets releasing the kill switch with the halt at the daily reset
checkPeriodResets_LiftsKill(s) ==
    LET d == IF now >= s.dailyResetAt
             THEN LET s1 == [s EXCEPT !.dailyPnL = Zero,
                                      !.dailyResetAt = getNextDailyReset(now)]
                  IN  IF s1.isHalted
                      THEN [s1 EXCEPT !.isHalted = FALSE,
                                      !.killSwitchTriggered = FALSE,
                                      !.haltReason = NoReason,
                                      !.haltedAt = NullTime]
                      ELSE s1
             ELSE s
    IN  IF now >= d.weeklyResetAt
        THEN [d EXCEPT !.weeklyPnL = Zero,
                       !.weeklyResetAt = getNextWeeklyReset(now)]
        ELSE d

\* RiskManager.checkPeriodResets
checkPeriodResets(s) ==
    LET d == IF now >= s.dailyResetAt
             THEN LET s1 == [s EXCEPT !.dailyPnL = Zero,
                                      !.dailyResetAt = getNextDailyReset(now)]
                  IN  IF s1.isHalted /\ ~s1.killSwitchTriggered
                      THEN [s1 EXCEPT !.isHalted = FALSE,
                                      !.haltReason = NoReason,
                                      !.haltedAt = NullTime]
                      ELSE s1
             ELSE s
    IN  IF now >= d.weeklyResetAt
        THEN [d EXCEPT !.weeklyPnL = Zero,
                       !.weeklyResetAt = getNextWeeklyReset(now)]
        ELSE d

\* the daily drawdown check with a strict comparison
checkDailyDrawdown_Strict(s) ==
    LET dailyDrawdownPct == JsDiv(s.dailyPnL, s.currentEquity)
    IN  IF ~JsLe(dailyDrawdownPct, dailyDrawdownLimit)
           \/ dailyDrawdownPct = [k |-> "num", v |-> dailyDrawdownLimit]
           \/ s.isHalted
        THEN s
        ELSE [s EXCEPT !.isHalted = TRUE,
                       !.haltReason = DailyReason(ToFixed1Pct(dailyDrawdownPct)),
                       !.haltedAt = now]

\* the daily drawdown check of RiskManager.checkDrawdownLimits
checkDailyDrawdown(s) ==
    LET dailyDrawdownPct == JsDiv(s.dailyPnL, s.currentEquity)
    IN  IF JsLe(dailyDrawdownPct, dailyDrawdownLimit) /\ ~s.isHalted
        THEN [s EXCEPT !.isHalted = TRUE,
                       !.haltReason = DailyReason(ToFixed1Pct(dailyDrawdownPct)),
                       !.haltedAt = now]
        ELSE s

\* RiskManager.checkDrawdownLimits
checkDrawdownLimits(m) ==
    LET s1 == checkDailyDrawdown(checkPeriodResets(m.state))
        m1 == [m EXCEPT !.state = s1]
        totalDrawdown == TotalDrawdown(s1)
    IN  IF JsLe(totalDrawdown, totalDrawdownLimit)
        THEN triggerKillSwitch(m1,
                 KillReason("Total drawdown exceeds limit", ToFixed1Pct(totalDrawdown)))
        ELSE m1

\* RiskManager.isWeeklyBreached
isWeeklyBreached(s) == JsLe(JsDiv(s.weeklyPnL, s.currentEquity), weeklyDrawdownLimit)

Rejected(kind, haltReason, resumesAt, pct) ==
    [ allowed |-> FALSE, adjustedQty |-> NullNum,
      reason |-> [kind |-> kind, haltReason |-> haltReason,
                  resumesAt |-> resumesAt, pct |-> pct] ]

Allowed(kind, qty) ==
    [ allowed |-> TRUE, adjustedQty |-> qty,
      reason |-> [kind |-> kind, haltReason |-> NoReason,
                  resumesAt |-> NullTime, pct |-> NoPct] ]

\* step 4 of checkTrade filling the whole cap, the existing position forgotten
checkConcentration_NoExisting(s, symbol, quantity, price) ==
    LET notionalValue == RMul(quantity, price)
        existing == ExistingNotional(s, symbol)
        totalExposure == RAdd(existing, notionalValue)
        concentrationPct == JsDiv(totalExposure, s.currentEquity)
        maxAllowed == RMul(maxSingleAssetPct, s.currentEquity)
        allowedNotional == maxAllowed
    IN  IF JsGt(concentrationPct, maxSingleAssetPct)
        THEN IF RLe(allowedNotional, Zero)
             THEN [decided |-> TRUE,
                   result |-> Rejected("Single asset limit exceeded", NoReason,
                                       NullTime, ToFixed1Pct(concentrationPct))]
             ELSE [decided |-> TRUE,
                   result |-> Allowed("Quantity reduced",
                                      JsDiv(allowedNotional, price).v)]
        ELSE [decided |-> FALSE, result |-> Allowed("none", quantity)]

\* step 4 of RiskManager.checkTrade: the single asset concentration limit.
\* Returns the result the step returns, or [decided |-> FALSE] to go on.
checkConcentration(s, symbol, quantity, price) ==
    LET notionalValue == RMul(quantity, price)
        existing == ExistingNotional(s, symbol)
        totalExposure == RAdd(existing, notionalValue)
        concentrationPct == JsDiv(totalExposure, s.currentEquity)
        maxAllowed == RMul(maxSingleAssetPct, s.currentEquity)
        allowedNotional == RSub(maxAllowed, existing)
    IN  IF JsGt(concentrationPct, maxSingleAssetPct)
        THEN IF RLe(allowedNotional, Zero)
             THEN [decided |-> TRUE,
                   result |-> Rejected("Single asset limit exceeded", NoReason,
                                       NullTime, ToFixed1Pct(concentrationPct))]
             ELSE [decided |-> TRUE,
                   result |-> Allowed("Quantity reduced",
                                      JsDiv(allowedNotional, price).v)]
        ELSE [decided |-> FALSE, result |-> Allowed("none", quantity)]

\* checkTrade without its halt check (step 2)
checkTrade_NoHaltCheck(m, symbol, side, quantity, price, leverage) ==
    LET s == m.state
        conc == checkConcentration(s, symbol, quantity, price)
    IN  IF s.killSwitchTriggered
        THEN [m |-> m, result |-> Rejected("Kill switch triggered", NoReason, NullTime, NoPct)]
        ELSE IF PositionsSize(s) >= maxConcurrentPositions /\ ~HasPosition(s, symbol)
        THEN [m |-> m, result |-> Rejected("Max concurrent positions reached",
                                           NoReason, NullTime, NoPct)]
        ELSE IF conc.decided
        THEN [m |-> m, result |-> conc.result]
        ELSE IF JsLe(TotalDrawdown(s), totalDrawdownLimit)
        THEN [m |-> triggerKillSwitch(m,
                        KillReason("Total drawdown limit breached", NoPct)),
              result |-> Rejected("Total drawdown limit breached", NoReason,
                                  NullTime, NoPct)]
        ELSE [m |-> m, result |-> Allowed("All risk checks passed", quantity)]

\* RiskManager.checkTrade: [m |-> the manager after the call, result |-> RiskCheckResult]
checkTrade(m, symbol, side, quantity, price, leverage) ==
    LET s == m.state
        conc == checkConcentration(s, symbol, quantity, price)
    IN  IF s.killSwitchTriggered
        THEN [m |-> m, result |-> Rejected("Kill switch triggered", NoReason, NullTime, NoPct)]
        ELSE IF s.isHalted
        THEN [m |-> m, result |-> Rejected("Trading halted", s.haltReason,
                                           s.dailyResetAt, NoPct)]
        ELSE IF PositionsSize(s) >= maxConcurrentPositions /\ ~HasPosition(s, symbol)
        THEN [m |-> m, result |-> Rejected("Max concurrent positions reached",
                                           NoReason, NullTime, NoPct)]
        ELSE IF conc.decided
        THEN [m |-> m, result |-> conc.result]
        ELSE IF JsLe(TotalDrawdown(s), totalDrawdownLimit)
        THEN [m |-> triggerKillSwitch(m,
                        KillReason("Total drawdown limit breached", NoPct)),
              result |-> Rejected("Total drawdown limit breached", NoReason,
                                  NullTime, NoPct)]
        ELSE [m |-> m, result |-> Allowed("All risk checks passed", quantity)]

\* RiskManager.openPosition
openPosition(s, symbol, side, entryPrice, quantity, leverage, stopLoss, takeProfit) ==
    [s EXCEPT !.positions =
        (symbol :> [ symbol        |-> symbol,
                     side          |-> side,
                     entryPrice    |-> entryPrice,
                     quantity      |-> quantity,
                     notionalValue |-> RMul(quantity, entryPrice),
                     leverage      |-> leverage,
                     stopLoss      |-> stopLoss,
                     takeProfit    |-> takeProfit ]) @@ @]

\* the P&L of a closed position without its leverage
RealizedPnL_Unlevered(position, exitPrice) ==
    LET priceDiff == IF position.side = "long"
                     THEN RSub(exitPrice, position.entryPrice)
                     ELSE RSub(position.entryPrice, exitPrice)
    IN  RMul(priceDiff, position.quantity)

\* the P&L RiskManager.closePosition realizes for a position closed at exitPrice
RealizedPnL(position, exitPrice) ==
    LET priceDiff == IF position.side = "long"
                     THEN RSub(exitPrice, position.entryPrice)
                     ELSE RSub(position.entryPrice, exitPrice)
    IN  RMul(RMul(priceDiff, position.quantity), R(position.leverage))

\* entries equityHistory is trimmed to by RiskManager.updateEquity
HistoryCap == 1000

Last(seq, n) == IF Len(seq) > n THEN SubSeq(seq, Len(seq) - n + 1, Len(seq)) ELSE seq

\* RiskManager.closePosition: [m |-> the manager after the call, pnl |-> its result]
closePosition(m, symbol, exitPrice) ==
    IF ~HasPosition(m.state, symbol) THEN [m |-> m, pnl |-> Zero]
    ELSE LET s == m.state
             pnl == RealizedPnL(s.positions[symbol], exitPrice)
             equity == RAdd(s.currentEquity, pnl)
             s1 == [s EXCEPT
                      !.currentEquity = equity,
                      !.dailyPnL = RAdd(@, pnl),
                      !.weeklyPnL = RAdd(@, pnl),
                      !.totalPnL = RAdd(@, pnl),
                      !.peakEquity = IF RGt(equity, @) THEN equity ELSE @,
                      !.equityHistory =
                          Append(@, equity),
                      !.positions =
                          [x \in (DOMAIN s.positions) \ {symbol} |-> s.positions[x]]]
         IN  [m |-> checkDrawdownLimits([m EXCEPT !.state = s1]), pnl |-> pnl]

\* updateEquity taking the new equity for the peak, whether higher or not
updateEquity_PeakFollows(m, newEquity) ==
    LET s == m.state
        pnlDelta == RSub(newEquity, s.currentEquity)
        s1 == [s EXCEPT
                 !.currentEquity = newEquity,
                 !.dailyPnL = RAdd(@, pnlDelta),
                 !.weeklyPnL = RAdd(@, pnlDelta),
                 !.totalPnL = RSub(newEquity, s.startingEquity),
                 !.peakEquity = newEquity,
                 !.equityHistory =
                     Last(Append(@, newEquity), HistoryCap)]
    IN  checkDrawdownLimits([m EXCEPT !.state = s1])

\* updateEquity never raising the peak
updateEquity_PeakKept(m, newEquity) ==
    LET s == m.state
        pnlDelta == RSub(newEquity, s.currentEquity)
        s1 == [s EXCEPT
                 !.currentEquity = newEquity,
                 !.dailyPnL = RAdd(@, pnlDelta),
                 !.weeklyPnL = RAdd(@, pnlDelta),
                 !.totalPnL = RSub(newEquity, s.startingEquity),
                 !.equityHistory =
                     Last(Append(@, newEquity), HistoryCap)]
    IN  checkDrawdownLimits([m EXCEPT !.state = s1])

\* RiskManager.updateEquity
updateEquity(m, newEquity) ==
    LET s == m.state
        pnlDelta == RSub(newEquity, s.currentEquity)
        s1 == [s EXCEPT
                 !.currentEquity = newEquity,
                 !.dailyPnL = RAdd(@, pnlDelta),
                 !.weeklyPnL = RAdd(@, pnlDelta),
                 !.totalPnL = RSub(newEquity, s.startingEquity),
                 !.peakEquity = IF RGt(newEquity, @) THEN newEquity ELSE @,
                 !.equityHistory =
                     Last(Append(@, newEquity), HistoryCap)]
    IN  checkDrawdownLimits([m EXCEPT !.state = s1])

\* RiskManager.resetKillSwitch; newEquity = NullNum when the argument is omitted
resetKillSwitch(s, newEquity) ==
    LET s1 == [s EXCEPT !.killSwitchTriggered = FALSE,
                        !.isHalted = FALSE,
                        !.haltReason = NoReason,
                        !.haltedAt = NullTime]
    IN  IF newEquity # NullNum
        THEN [s1 EXCEPT !.currentEquity = newEquity, !.peakEquity = newEquity]
        ELSE s1

\* RiskManager.getCurrentDrawdown
getCurrentDrawdown(s) ==
    LET amount == RSub(s.currentEquity, s.peakEquity)
    IN  [ amount  |-> amount,
          percent |-> IF RGt(s.peakEquity, Zero)
                      THEN JsDiv(amount, s.peakEquity).v
                      ELSE Zero ]

\* RiskManager.heartbeat
heartbeat(s) == [s EXCEPT !.lastHeartbeat = now]

\* the monitor's callback firing only after twice the timeout
heartbeatCheck_DoubleTimeout(m) ==
    LET elapsed == now - m.state.lastHeartbeat
    IN  IF elapsed > 2 * heartbeatTimeoutMs
        THEN triggerKillSwitch(m, KillReason("heartbeat timeout", NoPct))
        ELSE m

\* the callback of the setInterval in RiskManager.startHeartbeatMonitor
heartbeatCheck(m) ==
    LET elapsed == now - m.state.lastHeartbeat
    IN  IF elapsed > heartbeatTimeoutMs
        THEN triggerKillSwitch(m, KillReason("heartbeat timeout", NoPct))
        ELSE m

\* RiskManager.calculateSimplePositionSize
calculateSimplePositionSize(s, currentPrice, stopLossPrice, leverage) ==
    LET equity == s.currentEquity
        riskPct == IF isWeeklyBreached(s)
                   THEN RMul(maxRiskPerTrade, weeklyReductionFactor)
                   ELSE maxRiskPerTrade
        riskAmount == RMul(equity, riskPct)
        priceDiff == RAbs(RSub(currentPrice, stopLossPrice))
        riskPerUnit == JsDiv(priceDiff, currentPrice).v
        positionValue == IF RGt(riskPerUnit, Zero)
                         THEN JsDiv(riskAmount, riskPerUnit).v
                         ELSE riskAmount
        quantity == JsDiv(RMul(positionValue, R(leverage)), currentPrice).v
    IN  [quantity |-> quantity, riskAmount |-> riskAmount, positionValue |-> positionValue]

----------------------------------------------------------------------------
(* The RiskManager driven through its public interface, in any order.  Its *)
(* owner may have registered the kill-switch handler right after           *)
(* construction (as TradingBot's constructor does) or may do so later.     *)

Manager == [state |-> state, handler |-> handler]

\* a TradingBot that has not been started; a RiskManager used on its own has none
NoBot == [ dryRun |-> TRUE, started |-> FALSE, running |-> FALSE,
           scanTimer |-> FALSE, nextScanAt |-> NullTime, nextCheckAt |-> NullTime,
           scans |-> 0, checks |-> 0, tasks |-> << >> ]

NoCall == [op |-> "constructor"]

Init ==
    \E e \in StartingEquities, t \in StartTimes :
        /\ state = NewRiskState(e, t)
        /\ now = t
        /\ heartbeatTimer = FALSE
        /\ onKillSwitch \in BOOLEAN
        /\ handler = NewHandler
        /\ call = NoCall
        /\ steps = 0
        /\ bot = NoBot
        /\ wf = NoRun

\* one more operation, within the bound
Step == steps < MaxSteps /\ steps' = steps + 1 /\ UNCHANGED <<bot, wf>>

\* time passes
Advance ==
    \E d \in ClockSteps :
        /\ Step
        /\ now' = now + d
        /\ call' = [op |-> "advance"]
        /\ UNCHANGED <<state, heartbeatTimer, onKillSwitch, handler>>

RegisterKillSwitchHandler ==
    /\ Step
    /\ onKillSwitch' = TRUE
    /\ call' = [op |-> "registerKillSwitchHandler"]
    /\ UNCHANGED <<state, now, heartbeatTimer, handler>>

Heartbeat ==
    /\ Step
    /\ state' = heartbeat(state)
    /\ call' = [op |-> "heartbeat"]
    /\ UNCHANGED <<now, heartbeatTimer, onKillSwitch, handler>>

\* the live loop starts the monitor once, while none is running
StartHeartbeatMonitor ==
    /\ Step
    /\ ~heartbeatTimer
    /\ state' = heartbeat(state)
    /\ heartbeatTimer' = TRUE
    /\ call' = [op |-> "startHeartbeatMonitor"]
    /\ UNCHANGED <<now, onKillSwitch, handler>>

StopHeartbeatMonitor ==
    /\ Step
    /\ heartbeatTimer' = FALSE
    /\ call' = [op |-> "stopHeartbeatMonitor"]
    /\ UNCHANGED <<state, now, onKillSwitch, handler>>

\* the monitor's interval fires
HeartbeatCheck ==
    /\ Step
    /\ heartbeatTimer
    /\ LET m == heartbeatCheck(Manager)
       IN  /\ state' = m.state
           /\ handler' = m.handler
    /\ call' = [op |-> "heartbeatCheck"]
    /\ UNCHANGED <<now, heartbeatTimer, onKillSwitch>>

CheckTrade ==
    \E symbol \in Symbols, tr \in Trades :
        LET r == checkTrade(Manager, symbol, tr.side, tr.quantity, tr.price, tr.leverage)
        IN  /\ Step
            /\ state' = r.m.state
            /\ handler' = r.m.handler
            /\ call' = [op |-> "checkTrade", symbol |-> symbol,
                        quantity |-> tr.quantity, price |-> tr.price,
                        result |-> r.result]
            /\ UNCHANGED <<now, heartbeatTimer, onKillSwitch>>

OpenPosition ==
    \E symbol \in Symbols, tr \in Trades :
        /\ Step
        /\ state' = openPosition(state, symbol, tr.side, tr.price, tr.quantity,
                                 tr.leverage, NullNum, NullNum)
        /\ call' = [op |-> "openPosition"]
        /\ UNCHANGED <<now, heartbeatTimer, onKillSwitch, handler>>

ClosePosition ==
    \E symbol \in Symbols, exitPrice \in ExitPrices :
        /\ Step
        /\ LET r == closePosition(Manager, symbol, exitPrice)
           IN  /\ state' = r.m.state
               /\ handler' = r.m.handler
               /\ call' = [op |-> "closePosition", symbol |-> symbol,
                           exitPrice |-> exitPrice, pnl |-> r.pnl]
        /\ UNCHANGED <<now, heartbeatTimer, onKillSwitch>>

UpdateEquity ==
    \E newEquity \in Equities :
        /\ Step
        /\ LET m == updateEquity(Manager, newEquity)
           IN  /\ state' = m.state
               /\ handler' = m.handler
        /\ call' = [op |-> "updateEquity"]
        /\ UNCHANGED <<now, heartbeatTimer, onKillSwitch>>

\* a direct call of triggerKillSwitch (the operator's manual kill)
TriggerKillSwitch ==
    \E reason \in KillReasons :
        /\ Step
        /\ LET m == triggerKillSwitch(Manager, KillReason(reason, NoPct))
           IN  /\ state' = m.state
               /\ handler' = m.handler
        /\ call' = [op |-> "triggerKillSwitch"]
        /\ UNCHANGED <<now, heartbeatTimer, onKillSwitch>>

ResetKillSwitch ==
    \E newEquity \in ResetEquities \cup {NullNum} :
        /\ Step
        /\ state' = resetKillSwitch(state, newEquity)
        /\ call' = [op |-> "resetKillSwitch", newEquity |-> newEquity]
        /\ UNCHANGED <<now, heartbeatTimer, onKillSwitch, handler>>

\* a running kill-switch handler resolves: the await returns
HandlerReturns ==
    /\ Step
    /\ handler.running > 0
    /\ handler' = [handler EXCEPT !.running = @ - 1]
    /\ call' = [op |-> "handlerReturned"]
    /\ UNCHANGED <<state, now, heartbeatTimer, onKillSwitch>>

\* a running kill-switch handler rejects: the catch logs the error
HandlerThrows ==
    /\ Step
    /\ handler.running > 0
    /\ handler' = [handler EXCEPT !.running = @ - 1]
    /\ call' = [op |-> "handlerThrew"]
    /\ UNCHANGED <<state, now, heartbeatTimer, onKillSwitch>>

Next ==
    \/ Advance
    \/ RegisterKillSwitchHandler
    \/ Heartbeat
    \/ StartHeartbeatMonitor
    \/ StopHeartbeatMonitor
    \/ HeartbeatCheck
    \/ CheckTrade
    \/ OpenPosition
    \/ ClosePosition
    \/ UpdateEquity
    \/ TriggerKillSwitch
    \/ ResetKillSwitch
    \/ HandlerReturns
    \/ HandlerThrows

Spec == Init /\ [][Next]_vars

----------------------------------------------------------------------------
(* A RiskManager that has been running for long: the exchange has reported   *)
(* its equity, unchanged, often enough for equityHistory to hold HistoryCap  *)
(* samples (the constructor's and HistoryCap - 1 calls of updateEquity).     *)
(* Positions are then opened and closed and further equities reported.       *)

InitLongRun ==
    \E e \in StartingEquities, t \in StartTimes :
        /\ state = [NewRiskState(e, t) EXCEPT
                        !.equityHistory = [i \in 1..HistoryCap |-> e]]
        /\ now = t
        /\ heartbeatTimer = FALSE
        /\ onKillSwitch \in BOOLEAN
        /\ handler = NewHandler
        /\ call = NoCall
        /\ steps = 0
        /\ bot = NoBot
        /\ wf = NoRun

NextLongRun ==
    \/ OpenPosition
    \/ ClosePosition
    \/ UpdateEquity

SpecLongRun == InitLongRun /\ [][NextLongRun]_vars

----------------------------------------------------------------------------
(* Positions sized by the RiskManager: the caller asks                       *)
(* calculateSimplePositionSize for a quantity, opens the position with it    *)
(* and the same leverage, and later closes the position at its stop price.   *)

SizingPrices == {R(100)}
SizingStops == {R(95), R(102)}
Leverages == {1, 3}

SizedOpen ==
    \E symbol \in Symbols, price \in SizingPrices, stop \in SizingStops,
       lev \in Leverages :
        /\ Step
        /\ LET sizing == calculateSimplePositionSize(state, price, stop, lev)
               side == IF RLt(stop, price) THEN "long" ELSE "short"
           IN  /\ state' = openPosition(state, symbol, side, price, sizing.quantity,
                                        lev, stop, NullNum)
               /\ call' = [op |-> "sizedOpen", symbol |-> symbol,
                           stopPrice |-> stop, leverage |-> lev,
                           riskAmount |-> sizing.riskAmount]
        /\ UNCHANGED <<now, heartbeatTimer, onKillSwitch, handler>>

CloseAtStop ==
    \E symbol \in Symbols :
        /\ Step
        /\ HasPosition(state, symbol)
        /\ LET exitPrice == state.positions[symbol].stopLoss
               r == closePosition(Manager, symbol, exitPrice)
           IN  /\ state' = r.m.state
               /\ handler' = r.m.handler
               /\ call' = [op |-> "closePosition", symbol |-> symbol,
                           exitPrice |-> exitPrice, pnl |-> r.pnl]
        /\ UNCHANGED <<now, heartbeatTimer, onKillSwitch>>

NextSizing ==
    \/ SizedOpen
    \/ CloseAtStop
    \/ UpdateEquity
    \/ Advance

SpecSizing == Init /\ [][NextSizing]_vars

----------------------------------------------------------------------------
(* analyzeTrend (src/strategies/trend-following, part_014): the decision on  *)
(* the latest values of the indicators.  The indicators themselves (EMA,     *)
(* RSI, ATR, ADX over the candles) are inputs; ADX guards its divisions, so  *)
(* on finite candles they are numbers.  Left out: regime, reason and the     *)
(* echoed indicators of a TrendSignal.                                       *)

\* DEFAULT_TREND_CONFIG
slowPeriod == 50
adxThreshold == 25
atrMultiplierSL == 2
atrMultiplierTP == 3
rsiOverbought == 75
rsiOversold == 25

\* Math.max(cfg.slowPeriod + 5, 30)
minRequired == IF slowPeriod + 5 > 30 THEN slowPeriod + 5 ELSE 30

\* the regime filter taking only an ADX below 20 for a ranging market
RangingMarket_BelowTwenty(currentADX) == currentADX < 20

\* the regime filter: currentADX < cfg.adxThreshold
RangingMarket(currentADX) == currentADX < adxThreshold

Hold(adxValue, confidence) ==
    [ action |-> "HOLD", adxValue |-> adxValue, confidence |-> confidence,
      stopLoss |-> NullNum, takeProfit |-> NullNum ]

\* analyzeTrend on c.candles candles whose indicators have the latest values
\* of c
analyzeTrend(c) ==
    IF c.candles < minRequired THEN Hold(0, 0)
    ELSE IF RangingMarket(c.adx) THEN Hold(c.adx, 0)
    ELSE
    LET goldenCross == c.prevFastEMA <= c.prevSlowEMA /\ c.fastEMA > c.slowEMA
        deathCross == c.prevFastEMA >= c.prevSlowEMA /\ c.fastEMA < c.slowEMA
        price == R(c.price)
        atr == R(c.atr)
        longSL == RSub(price, RMul(atr, R(atrMultiplierSL)))
        longTP == RAdd(price, RMul(atr, R(atrMultiplierTP)))
        shortSL == RAdd(price, RMul(atr, R(atrMultiplierSL)))
        shortTP == RSub(price, RMul(atr, R(atrMultiplierTP)))
        confidence == Min(90, 50 + (c.adx - adxThreshold) * 2)
    IN  IF goldenCross /\ c.plusDI > c.minusDI
        THEN IF c.rsi > rsiOverbought THEN Hold(c.adx, 30)
             ELSE [ action |-> "LONG", adxValue |-> c.adx, confidence |-> confidence,
                    stopLoss |-> longSL, takeProfit |-> longTP ]
        ELSE IF deathCross /\ c.minusDI > c.plusDI
        THEN IF c.rsi < rsiOversold THEN Hold(c.adx, 30)
             ELSE [ action |-> "SHORT", adxValue |-> c.adx, confidence |-> confidence,
                    stopLoss |-> shortSL, takeProfit |-> shortTP ]
        ELSE IF c.fastEMA > c.slowEMA /\ c.minusDI > c.plusDI
        THEN [Hold(c.adx, 60) EXCEPT !.action = "CLOSE_LONG"]
        ELSE IF c.fastEMA < c.slowEMA /\ c.plusDI > c.minusDI
        THEN [Hold(c.adx, 60) EXCEPT !.action = "CLOSE_SHORT"]
        ELSE Hold(c.adx, 40)

\* numbers of candles, and latest values of the indicators
CandleLengths == {54, 55}
EMAs == {99, 100, 101}
ADXs == {10, 24, 25, 40}
DIs == {15, 30}
RSIs == {20, 50, 80}

TrendInputs ==
    [ candles : CandleLengths, prevFastEMA : EMAs, prevSlowEMA : {100},
      fastEMA : EMAs, slowEMA : {100}, adx : ADXs, plusDI : DIs, minusDI : DIs,
      rsi : RSIs, price : {100}, atr : {2} ]

InitTrend ==
    /\ \E e \in StartingEquities, t \in StartTimes :
           state = NewRiskState(e, t) /\ now = t
    /\ heartbeatTimer = FALSE
    /\ onKillSwitch = FALSE
    /\ handler = NewHandler
    /\ call = NoCall
    /\ steps = 0
    /\ bot = NoBot
    /\ wf = NoRun

\* a call of analyzeTrend(candles)
AnalyzeTrend ==
    \E c \in TrendInputs :
        /\ call' = [op |-> "analyzeTrend", input |-> c, signal |-> analyzeTrend(c)]
        /\ UNCHANGED <<state, now, heartbeatTimer, onKillSwitch, handler, steps, bot, wf>>

NextTrend == AnalyzeTrend

SpecTrend == InitTrend /\ [][NextTrend]_vars

----------------------------------------------------------------------------
(* A run of the Backtester: one pass over the candles, the strategy called   *)
(* once per candle with the candles so far and the position held.  `call`    *)
(* holds the run: the fields of the Backtester, the candles passed so far,   *)
(* the signals the strategy gave, and the counts of the win/loss pairing.    *)

MaxCandles == 5

\* the balance the Backtester is constructed with (10000 by default)
InitialBalances == {R(0), R(1000), R(10000)}

\* close prices of the candles, all positive
ClosePrices == {R(1), R(2)}

\* the actions a strategy answers
SignalActions == {"BUY", "SELL", "HOLD"}

\* run() after it has reset the fields, before the first candle
NewBacktest(initialBalance) ==
    [ op             |-> "backtest",
      pc             |-> "loop",
      initialBalance |-> initialBalance,
      balance        |-> initialBalance,
      position       |-> Zero,
      trades         |-> << >>,
      balanceHistory |-> <<initialBalance>>,
      closes         |-> << >>,
      signals        |-> << >>,
      winningTrades  |-> 0,
      losingTrades   |-> 0 ]

InitBacktest ==
    /\ \E e \in StartingEquities, t \in StartTimes :
           state = NewRiskState(e, t) /\ now = t
    /\ heartbeatTimer = FALSE
    /\ onKillSwitch = FALSE
    /\ handler = NewHandler
    /\ \E initialBalance \in InitialBalances : call = NewBacktest(initialBalance)
    /\ steps = 0
    /\ bot = NoBot
    /\ wf = NoRun

BuyAllowed_AnyPosition(position) == TRUE

\* the guard of the BUY branch
BuyAllowed(position) == position = Zero

\* the guard of the SELL branch
SellAllowed(position) == RGt(position, Zero)

\* one iteration of the loop: the candle closes at currentPrice and the
\* strategy answers action
CandlePasses ==
    /\ call.op = "backtest"
    /\ call.pc = "loop"
    /\ Len(call.closes) < MaxCandles
    /\ \E currentPrice \in ClosePrices, action \in SignalActions :
           LET quantity == Frac(call.balance[1] * currentPrice[2],
                                call.balance[2] * currentPrice[1])
               value    == RMul(call.position, currentPrice)
               traded   ==
                   IF action = "BUY" /\ BuyAllowed(call.position)
                   THEN [call EXCEPT
                            !.position = quantity,
                            !.trades = Append(@, [type     |-> "BUY",
                                                  price    |-> currentPrice,
                                                  quantity |-> quantity,
                                                  value    |-> call.balance]),
                            !.balance = Zero]
                   ELSE IF action = "SELL" /\ SellAllowed(call.position)
                   THEN [call EXCEPT
                            !.trades = Append(@, [type     |-> "SELL",
                                                  price    |-> currentPrice,
                                                  quantity |-> call.position,
                                                  value    |-> value]),
                            !.balance = value,
                            !.position = Zero]
                   ELSE call
               portfolioValue == RAdd(traded.balance, RMul(traded.position, currentPrice))
           IN  call' = [traded EXCEPT
                           !.balanceHistory = Append(@, portfolioValue),
                           !.closes = Append(@, currentPrice),
                           !.signals = Append(@, action)]
    /\ UNCHANGED <<state, now, heartbeatTimer, onKillSwitch, handler, steps, bot, wf>>

\* the pairs (trades[i], trades[i + 1]), i = 0, 2, 4, ... that the win/loss
\* loop visits, as indices from 1
PairedTrades(trades) == { k \in 1..Len(trades) : k % 2 = 1 /\ k + 1 <= Len(trades) }

\* the candles are exhausted: the metrics are computed (reading the close of
\* the last candle throws on an empty candle list)
Metrics ==
    /\ call.op = "backtest"
    /\ call.pc = "loop"
    /\ call' = IF call.closes = << >>
               THEN [call EXCEPT !.pc = "threw"]
               ELSE [call EXCEPT
                        !.pc = "done",
                        !.winningTrades = Cardinality(
                            { k \in PairedTrades(call.trades) :
                                  RGt(call.trades[k + 1].value, call.trades[k].value) }),
                        !.losingTrades = Cardinality(
                            { k \in PairedTrades(call.trades) :
                                  ~RGt(call.trades[k + 1].value, call.trades[k].value) })]
    /\ UNCHANGED <<state, now, heartbeatTimer, onKillSwitch, handler, steps, bot, wf>>

NextBacktest == CandlePasses \/ Metrics

SpecBacktest == InitBacktest /\ [][NextBacktest]_vars

----------------------------------------------------------------------------
(* A run of the WalkForwardEngine on a candle sequence: run() throws on      *)
(* fewer candles than one window needs, else pushes one window per pair of   *)
(* backtests and aggregates the windows.  The two BacktestResults of a       *)
(* window are inputs.                                                        *)

MaxWindows == 3

\* the periods of the engine's config: the defaults, and 100 / 50
WindowConfigs == {DEFAULT_WF_CONFIG, [inSamplePeriod |-> 100, outOfSamplePeriod |-> 50]}

windowSize(c) == c.inSamplePeriod + c.outOfSamplePeriod

\* lengths of the candle sequence: none, one short of a window, and for one to
\* MaxWindows windows the shortest and the longest sequence
CandleCounts(c) ==
    {0, windowSize(c) - 1}
    \cup { windowSize(c) + k * c.outOfSamplePeriod + j :
              k \in 0..(MaxWindows - 1), j \in {0, c.outOfSamplePeriod - 1} }

\* totalReturnPercent of the in-sample and of the out-of-sample backtest, and
\* the out-of-sample totalTrades
InSampleReturns == {R(0), R(4), R(5)}
OutOfSampleReturns == {R(-10), R(2), R(30)}
OutOfSampleTrades == {10, 30}

InitWalkForward ==
    /\ \E e \in StartingEquities, t \in StartTimes :
           state = NewRiskState(e, t) /\ now = t
    /\ heartbeatTimer = FALSE
    /\ onKillSwitch = FALSE
    /\ handler = NewHandler
    /\ call = NoCall
    /\ steps = 0
    /\ bot = NoBot
    /\ \E c \in WindowConfigs :
           \E n \in CandleCounts(c) :
               wf = [NoRun EXCEPT !.config = c, !.candles = n]

\* run() up to its loop: the check of the number of candles
Run ==
    /\ wf.pc = "idle"
    /\ wf' = IF wf.candles < windowSize(wf.config)
             THEN [wf EXCEPT !.pc = "threw"]
             ELSE [wf EXCEPT !.pc = "loop", !.start = 0]
    /\ UNCHANGED <<state, now, heartbeatTimer, onKillSwitch, handler, call,
                   steps, bot>>

\* the loop going on only while candles are left beyond the window
LoopContinues_Strict(w) == w.start + windowSize(w.config) < w.candles

\* start + windowSize <= candles.length
LoopContinues(w) == w.start + windowSize(w.config) <= w.candles

\* the start moved on by half an out-of-sample period
NextStart_HalfPeriod(w) == w.start + w.config.outOfSamplePeriod \div 2

\* start += outOfSamplePeriod
NextStart(w) == w.start + w.config.outOfSamplePeriod

\* one iteration of run()'s loop
WindowRuns ==
    \E isReturn \in InSampleReturns, oosReturn \in OutOfSampleReturns,
       oosTrades \in OutOfSampleTrades :
        /\ wf.pc = "loop"
        /\ LoopContinues(wf)
        /\ LET isStart == wf.start
               isEnd == wf.start + wf.config.inSamplePeriod
               oosStart == isEnd
               oosEnd == Min(isEnd + wf.config.outOfSamplePeriod, wf.candles)
           IN  wf' = IF 2 * (oosEnd - oosStart) < wf.config.outOfSamplePeriod
                     THEN [wf EXCEPT !.pc = "aggregate"]
                     ELSE [wf EXCEPT
                             !.windows =
                                 Append(@, NewWindow(Len(wf.windows), isStart, isEnd,
                                                     oosStart, oosEnd, isReturn,
                                                     oosReturn, oosTrades)),
                             !.start = NextStart(wf)]
        /\ UNCHANGED <<state, now, heartbeatTimer, onKillSwitch, handler, call,
                       steps, bot>>

\* the end of run(): this.aggregateResults(windows, ...)
AggregateResults ==
    /\ \/ wf.pc = "aggregate"
       \/ wf.pc = "loop" /\ ~LoopContinues(wf)
    /\ wf' = [wf EXCEPT !.aggregate = aggregateResults(wf.windows), !.pc = "done"]
    /\ UNCHANGED <<state, now, heartbeatTimer, onKillSwitch, handler, call,
                   steps, bot>>

NextWalkForward ==
    \/ Run
    \/ WindowRuns
    \/ AggregateResults

SpecWalkForward == InitWalkForward /\ [][NextWalkForward]_vars

----------------------------------------------------------------------------
(* Properties of the RiskManager *)

InitialDailyResets == { getNextDailyReset(t) : t \in StartTimes }
InitialWeeklyResets == { getNextWeeklyReset(t) : t \in StartTimes }
TotalDrawdownBreached(s) == JsLe(TotalDrawdown(s), totalDrawdownLimit)
DailyDrawdownBreached(s) ==
    JsLe(JsDiv(s.dailyPnL, s.currentEquity), dailyDrawdownLimit)

\* C1: in every reachable state, killSwitchTriggered implies isHalted
C1_KillSwitchImpliesHalted == state.killSwitchTriggered => state.isHalted

\* a daily reset was applied by an updateEquity while the kill switch was latched
C1_Witness ==
    /\ call.op = "updateEquity"
    /\ state.killSwitchTriggered
    /\ state.isHalted
    /\ state.dailyResetAt \notin InitialDailyResets

\* C2: while the kill switch is triggered, no operation but resetKillSwitch
\* invokes the handler again or changes haltReason or haltedAt, a further
\* triggerKillSwitch (direct, from the heartbeat monitor or from checkTrade)
\* changes no state at all, and an activation invokes a registered handler once
C2_TriggerIdempotent ==
    [][ /\ (state.killSwitchTriggered /\ call'.op # "resetKillSwitch")
            => /\ handler'.calls = handler.calls
               /\ state'.haltReason = state.haltReason
               /\ state'.haltedAt = state.haltedAt
        /\ (/\ state.killSwitchTriggered
            /\ call'.op \in {"triggerKillSwitch", "heartbeatCheck", "checkTrade"})
            => (state' = state /\ handler' = handler)
        /\ (~state.killSwitchTriggered /\ state'.killSwitchTriggered /\ onKillSwitch)
            => handler'.calls = handler.calls + 1
      ]_vars

\* triggerKillSwitch was called again after the activation: one invocation
C2_Witness ==
    /\ call.op = "triggerKillSwitch"
    /\ state.killSwitchTriggered
    /\ state.haltedAt < now
    /\ onKillSwitch
    /\ handler.calls = 1

\* C3: whenever the handler is invoked the latch, the halt and the kill-switch
\* reason are already set, and the handler's return or failure changes none of
\* the RiskState
C3_LatchBeforeHandler ==
    [][ /\ handler'.calls > handler.calls
            => /\ handler'.saw = [killSwitchTriggered |-> TRUE, isHalted |-> TRUE,
                                  haltReason |-> "KILL SWITCH"]
               /\ state'.killSwitchTriggered
               /\ state'.isHalted
               /\ state'.haltReason.kind = "KILL SWITCH"
        /\ call'.op \in {"handlerReturned", "handlerThrew"} => state' = state
      ]_vars

\* the handler failed and the latch is still set
C3_Witness ==
    /\ call.op = "handlerThrew"
    /\ handler.saw.killSwitchTriggered
    /\ state.killSwitchTriggered
    /\ state.isHalted
    /\ state.haltReason.kind = "KILL SWITCH"

\* C4: a check of the running heartbeat monitor that finds the last heartbeat
\* older than heartbeatTimeoutMs leaves the kill switch triggered, and invokes
\* the registered handler only if the switch was not triggered before
C4_HeartbeatTimeoutKills ==
    [][ (call'.op = "heartbeatCheck" /\ now - state.lastHeartbeat > heartbeatTimeoutMs)
            => /\ state'.killSwitchTriggered
               /\ handler'.calls = handler.calls +
                     (IF ~state.killSwitchTriggered /\ onKillSwitch THEN 1 ELSE 0)
      ]_vars

\* a further check, later than the one that fired: still one invocation
C4_Witness ==
    /\ call.op = "heartbeatCheck"
    /\ state.killSwitchTriggered
    /\ state.haltReason.text = "heartbeat timeout"
    /\ state.haltedAt < now
    /\ handler.calls = 1

\* C5: once triggered, the kill switch stays triggered and trading stays
\* disallowed (isTradeAllowed false, checkTrade rejecting) through every
\* operation but resetKillSwitch
C5_KillSwitchLatched ==
    [][ (state.killSwitchTriggered /\ call'.op # "resetKillSwitch")
            => /\ state'.killSwitchTriggered
               /\ ~isTradeAllowed(state')
               /\ (call'.op = "checkTrade" => ~call'.result.allowed)
      ]_vars

\* a weekly reset was applied while the kill switch was latched
C5_Witness ==
    /\ state.killSwitchTriggered
    /\ ~isTradeAllowed(state)
    /\ state.weeklyResetAt \notin InitialWeeklyResets
    /\ state.weeklyPnL = Zero

\* C6: checkTrade never allows a trade while the total drawdown is at or beyond
\* totalDrawdownLimit (checkTrade changes neither currentEquity nor peakEquity)
C6_NoTradeBeyondTotalDrawdown ==
    (call.op = "checkTrade" /\ call.result.allowed)
        => ~TotalDrawdownBreached(state)

\* C7: checkTrade allows only when neither killSwitchTriggered nor isHalted is
\* set; with the kill switch latched it rejects, naming the kill switch; when
\* halted without the kill switch it rejects with the halt reason and
\* dailyResetAt as the resume time, and changes nothing
C7_CheckTradeGates ==
    [][ call'.op = "checkTrade"
            => /\ call'.result.allowed
                    => (~state.killSwitchTriggered /\ ~state.isHalted)
               /\ state.killSwitchTriggered
                    => /\ ~call'.result.allowed
                       /\ call'.result.reason.kind = "Kill switch triggered"
               /\ (state.isHalted /\ ~state.killSwitchTriggered)
                    => /\ ~call'.result.allowed
                       /\ call'.result.reason.kind = "Trading halted"
                       /\ call'.result.reason.haltReason = state.haltReason
                       /\ call'.result.reason.resumesAt = state.dailyResetAt
                       /\ state' = state
      ]_vars

\* checkTrade rejected during a daily-drawdown halt, with reason and resume time
C7_Witness ==
    /\ call.op = "checkTrade"
    /\ ~call.result.allowed
    /\ call.result.reason.kind = "Trading halted"
    /\ call.result.reason.haltReason.kind = "halt"
    /\ call.result.reason.resumesAt = state.dailyResetAt
    /\ ~state.killSwitchTriggered

\* the notional a proposed or adjusted quantity adds to the symbol's exposure
ExposureWith(s, symbol, quantity, price) ==
    RAdd(ExistingNotional(s, symbol), RMul(quantity, price))

\* C8: a checkTrade that gets past the kill-switch, halt and position-count
\* checks with existing + proposed notional above maxSingleAssetPct * equity
\* rejects if the remaining allowance is <= 0 and otherwise allows with
\* adjustedQty * price = remaining allowance; and whenever checkTrade allows,
\* existing notional + adjustedQty * price <= maxSingleAssetPct * equity
C8_ConcentrationCap ==
    [][ call'.op = "checkTrade"
            => LET symbol == call'.symbol
                   cap == RMul(maxSingleAssetPct, state.currentEquity)
                   remaining == RSub(cap, ExistingNotional(state, symbol))
                   res == call'.result
                   reached == /\ ~state.killSwitchTriggered
                              /\ ~state.isHalted
                              /\ ~(/\ PositionsSize(state) >= maxConcurrentPositions
                                   /\ ~HasPosition(state, symbol))
               IN  /\ (/\ reached
                       /\ RGt(ExposureWith(state, symbol, call'.quantity, call'.price),
                              cap))
                        => IF RLe(remaining, Zero)
                           THEN ~res.allowed
                           ELSE /\ res.allowed
                                /\ RMul(res.adjustedQty, call'.price) = remaining
                                /\ ExposureWith(state, symbol, res.adjustedQty,
                                                call'.price) = cap
                   /\ res.allowed
                        => RLe(ExposureWith(state, symbol, res.adjustedQty,
                                            call'.price), cap)
      ]_vars

\* equity 1000, existing notional 200, 200 more proposed at price 1: allowed, 50
C8_Witness ==
    /\ call.op = "checkTrade"
    /\ state.currentEquity = R(1000)
    /\ ExistingNotional(state, call.symbol) = R(200)
    /\ call.quantity = R(200)
    /\ call.price = R(1)
    /\ call.result.allowed
    /\ call.result.adjustedQty = R(50)

\* the statement of C10 for the operation named by call'; closes: whether a
\* closePosition of a symbol without an open position counts
DailyHaltAfter(anyClose) ==
    (\/ call'.op = "updateEquity"
     \/ call'.op = "closePosition" /\ (anyClose \/ HasPosition(state, call'.symbol)))
        => /\ DailyDrawdownBreached(state')
                => /\ state'.isHalted
                   /\ state'.haltReason # NoReason
                   /\ state'.haltedAt # NullTime
           /\ (~state.isHalted /\ DailyDrawdownBreached(state'))
                => state'.haltedAt = now
           /\ (/\ state.isHalted
               /\ state'.isHalted
               /\ state'.killSwitchTriggered = state.killSwitchTriggered)
                => /\ state'.haltReason = state.haltReason
                   /\ state'.haltedAt = state.haltedAt

\* C10 as claimed: after any closePosition or updateEquity, a daily P&L ratio at
\* or beyond dailyDrawdownLimit leaves the manager halted, with a reason and a
\* timestamp, newly stamped if it was not halted; if it was halted and stays so
\* without a new kill-switch activation, haltReason and haltedAt are kept
C10_DailyHaltAfterAnyClose == [][DailyHaltAfter(TRUE)]_vars

\* C10 amended: the same after an updateEquity or a closePosition of a symbol
\* that has an open position
C10_DailyHaltAfterEquityChange == [][DailyHaltAfter(FALSE)]_vars

\* updateEquity from 1000 to 970 halted the manager, without the kill switch
C10_Witness ==
    /\ call.op = "updateEquity"
    /\ state.currentEquity = R(970)
    /\ state.dailyPnL = R(0 - 30)
    /\ state.isHalted
    /\ ~state.killSwitchTriggered
    /\ state.haltReason.kind = "halt"
    /\ state.haltedAt = now

----------------------------------------------------------------------------
(* The live loop: a TradingBot (src/unnamed/part_009) and its RiskManager.  *)
(* start() starts the heartbeat monitor, awaits a first scanAll() and then  *)
(* sets the scan timer.  Every invocation of scanAll() is a task that runs  *)
(* to its next await in one step; the scan timer starts a new task whether  *)
(* or not the previous ones have finished.  The clock moves from one timer  *)
(* expiry to the next.                                                      *)

scanIntervalMs == 60 * 1000
leverage == 3
BotStartingEquity == R(200)
Pairs == <<"BTCUSDT", "ETHUSDT", "SOLUSDT">>

\* the bot is constructed on Saturday 1970-01-03 at 23:58:30 UTC, a minute and
\* a half before the first daily reset, so that scans run on both sides of it
BotStartTimes == {3 * DayMs - scanIntervalMs - MonitorIntervalMs}

\* what analyzeTrend makes of the candles fetched for a pair: the action, the
\* last close, and the stop it proposes (none: processSignal takes 5%).  A long
\* entered at 100 and closed at 86 loses enough for the daily halt, closed at
\* 80 enough for the total-drawdown kill switch
Signals ==
    { [action |-> "HOLD",        price |-> R(100), stopLoss |-> NullNum],
      [action |-> "LONG",        price |-> R(100), stopLoss |-> NullNum],
      [action |-> "SHORT",       price |-> R(100), stopLoss |-> R(102)],
      [action |-> "CLOSE_LONG",  price |-> R(86),  stopLoss |-> NullNum],
      [action |-> "CLOSE_LONG",  price |-> R(80),  stopLoss |-> NullNum],
      [action |-> "CLOSE_SHORT", price |-> R(100), stopLoss |-> NullNum] }

\* a scanAll() that has reached the getKlines of its first pair
NewTask(initial) ==
    [ initial |-> initial, pc |-> "getKlines", i |-> 1,
      side |-> "none", qty |-> Zero, price |-> Zero, stopLoss |-> NullNum ]

\* scanAll's loop moves to the next pair, or on to the funding rates
NextPair(task) ==
    [task EXCEPT !.pc = IF task.i < Len(Pairs) THEN "getKlines"
                        ELSE "getTopFundingRates",
                 !.i = IF task.i < Len(Pairs) THEN @ + 1 ELSE @,
                 !.side = "none", !.qty = Zero, !.price = Zero,
                 !.stopLoss = NullNum]

\* TradingBot.scanAll up to its first await: the tasks it adds
scanAll(s, initial) == IF isTradeAllowed(s) THEN << NewTask(initial) >> ELSE << >>

\* signal.stopLoss || fallback
StopLossOr(stopLoss, fallback) ==
    IF stopLoss = NullNum \/ stopLoss = Zero THEN fallback ELSE stopLoss

\* TradingBot.processSignal up to its first await, or to its end:
\* [m |-> the manager after it, task |-> the scan after it]
processSignal(m, dryRun, task, symbol, signal) ==
    LET s == m.state
        existing == HasPosition(s, symbol)
        entry == signal.action \in {"LONG", "SHORT"} /\ ~existing
        side == IF signal.action = "LONG" THEN "long" ELSE "short"
        closes == /\ existing
                  /\ \/ signal.action = "CLOSE_LONG" /\ s.positions[symbol].side = "long"
                     \/ signal.action = "CLOSE_SHORT" /\ s.positions[symbol].side = "short"
    IN  IF entry
        THEN LET fallback == IF side = "long"
                             THEN RMul(signal.price, Frac(95, 100))
                             ELSE RMul(signal.price, Frac(105, 100))
                 sizing == calculateSimplePositionSize(s, signal.price,
                               StopLossOr(signal.stopLoss, fallback), leverage)
                 check == checkTrade(m, symbol, side, sizing.quantity,
                                     signal.price, leverage)
                 qty == check.result.adjustedQty
             IN  IF ~check.result.allowed
                 THEN [m |-> check.m, task |-> NextPair(task)]
                 ELSE IF dryRun
                 THEN [m |-> [check.m EXCEPT !.state =
                                 openPosition(@, symbol, side, signal.price, qty,
                                              leverage, signal.stopLoss, NullNum)],
                       task |-> NextPair(task)]
                 ELSE [m |-> check.m,
                       task |-> [task EXCEPT !.pc = "placeOrder", !.side = side,
                                             !.qty = qty, !.price = signal.price,
                                             !.stopLoss = signal.stopLoss]]
        ELSE IF closes
        THEN LET r == closePosition(m, symbol, signal.price)
             IN  IF dryRun
                 THEN [m |-> r.m, task |-> NextPair(task)]
                 ELSE [m |-> r.m,
                       task |-> [task EXCEPT !.pc = "placeCloseOrder",
                                             !.qty = s.positions[symbol].quantity]]
        ELSE [m |-> m, task |-> NextPair(task)]

ReplaceTask(tasks, k, task) == [tasks EXCEPT ![k] = task]
RemoveTask(tasks, k) == SubSeq(tasks, 1, k - 1) \o SubSeq(tasks, k + 1, Len(tasks))

\* start() after its first scan: setInterval(..., scanIntervalMs)
SetScanTimer(b) == [b EXCEPT !.scanTimer = TRUE, !.nextScanAt = now + scanIntervalMs]

\* new TradingBot(config): a RiskManager with the default RiskConfig, and the
\* kill-switch handler registered
InitLive ==
    \E t \in BotStartTimes, dryRun \in BOOLEAN :
        /\ state = NewRiskState(BotStartingEquity, t)
        /\ now = t
        /\ heartbeatTimer = FALSE
        /\ onKillSwitch = TRUE
        /\ handler = NewHandler
        /\ call = NoCall
        /\ steps = 0
        /\ bot = [NoBot EXCEPT !.dryRun = dryRun]
        /\ wf = NoRun

\* TradingBot.start, up to the first await of its first scanAll()
Start ==
    /\ ~bot.started
    /\ LET s1 == heartbeat(state)
           first == scanAll(s1, TRUE)
           b1 == [bot EXCEPT !.started = TRUE, !.running = TRUE,
                             !.nextCheckAt = now + MonitorIntervalMs,
                             !.tasks = first]
       IN  /\ state' = s1
           /\ bot' = IF first = << >> THEN SetScanTimer(b1) ELSE b1
    /\ heartbeatTimer' = TRUE
    /\ UNCHANGED <<call, now, onKillSwitch, handler, steps, wf>>

\* the earliest expiry among the timers that are set
NextExpiry ==
    IF heartbeatTimer /\ bot.scanTimer
    THEN (IF bot.nextCheckAt <= bot.nextScanAt THEN bot.nextCheckAt ELSE bot.nextScanAt)
    ELSE IF heartbeatTimer THEN bot.nextCheckAt
    ELSE bot.nextScanAt

\* time passes until a timer expires, while the model follows that timer
TimerExpiresWithin(maxScans, maxChecks) ==
    /\ heartbeatTimer \/ bot.scanTimer
    /\ now < NextExpiry
    /\ \/ heartbeatTimer /\ NextExpiry = bot.nextCheckAt /\ bot.checks < maxChecks
       \/ bot.scanTimer /\ NextExpiry = bot.nextScanAt /\ bot.scans < maxScans
    /\ now' = NextExpiry
    /\ UNCHANGED <<call, state, heartbeatTimer, onKillSwitch, handler, steps, wf, bot>>

\* time passes until a timer expires, within the bounds
TimerExpires == TimerExpiresWithin(MaxScans, MaxChecks)

\* the heartbeat monitor's interval fires
MonitorCheckWithin(maxChecks) ==
    /\ heartbeatTimer
    /\ now >= bot.nextCheckAt
    /\ bot.checks < maxChecks
    /\ LET m == heartbeatCheck(Manager)
       IN  /\ state' = m.state
           /\ handler' = m.handler
    /\ bot' = [bot EXCEPT !.nextCheckAt = @ + MonitorIntervalMs, !.checks = @ + 1]
    /\ UNCHANGED <<call, now, heartbeatTimer, onKillSwitch, steps, wf>>

MonitorCheck == MonitorCheckWithin(MaxChecks)

\* the scan timer's callback without its heartbeat(): scanAll() only
ScanTickWithin_NoHeartbeat(maxScans) ==
    /\ bot.scanTimer
    /\ now >= bot.nextScanAt
    /\ bot.scans < maxScans
    /\ bot' = [bot EXCEPT !.nextScanAt = @ + scanIntervalMs,
                          !.scans = @ + 1,
                          !.tasks = @ \o scanAll(state, FALSE)]
    /\ UNCHANGED <<call, state, now, heartbeatTimer, onKillSwitch, handler, steps, wf>>

\* the scan timer fires: heartbeat(), then scanAll() up to its first await
ScanTickWithin(maxScans) ==
    /\ bot.scanTimer
    /\ now >= bot.nextScanAt
    /\ bot.scans < maxScans
    /\ LET s1 == heartbeat(state)
       IN  /\ state' = s1
           /\ bot' = [bot EXCEPT !.nextScanAt = @ + scanIntervalMs,
                                 !.scans = @ + 1,
                                 !.tasks = @ \o scanAll(s1, FALSE)]
    /\ UNCHANGED <<call, now, heartbeatTimer, onKillSwitch, handler, steps, wf>>

ScanTick == ScanTickWithin(MaxScans)

\* getKlines resolves: analyzePair goes on into processSignal
KlinesResolve ==
    \E k \in DOMAIN bot.tasks, signal \in Signals :
        LET task == bot.tasks[k]
            r == processSignal(Manager, bot.dryRun, task, Pairs[task.i], signal)
        IN  /\ task.pc = "getKlines"
            /\ state' = r.m.state
            /\ handler' = r.m.handler
            /\ bot' = [bot EXCEPT !.tasks = ReplaceTask(@, k, r.task)]
            /\ UNCHANGED <<call, now, heartbeatTimer, onKillSwitch, steps, wf>>

\* getKlines rejects: scanAll logs the error and takes the next pair
KlinesReject ==
    \E k \in DOMAIN bot.tasks :
        /\ bot.tasks[k].pc = "getKlines"
        /\ bot' = [bot EXCEPT !.tasks = ReplaceTask(@, k, NextPair(bot.tasks[k]))]
        /\ UNCHANGED <<call, state, now, heartbeatTimer, onKillSwitch, handler, steps, wf>>

\* the entry order is placed: the position is tracked
EntryOrderResolves ==
    \E k \in DOMAIN bot.tasks :
        LET task == bot.tasks[k]
        IN  /\ task.pc = "placeOrder"
            /\ state' = openPosition(state, Pairs[task.i], task.side, task.price,
                                     task.qty, leverage, task.stopLoss, NullNum)
            /\ bot' = [bot EXCEPT !.tasks = ReplaceTask(@, k, NextPair(task))]
            /\ UNCHANGED <<call, now, heartbeatTimer, onKillSwitch, handler, steps, wf>>

\* the entry order fails: processSignal returns
EntryOrderRejects ==
    \E k \in DOMAIN bot.tasks :
        /\ bot.tasks[k].pc = "placeOrder"
        /\ bot' = [bot EXCEPT !.tasks = ReplaceTask(@, k, NextPair(bot.tasks[k]))]
        /\ UNCHANGED <<call, state, now, heartbeatTimer, onKillSwitch, handler, steps, wf>>

\* the closing order is placed, or fails and is logged
CloseOrderSettles ==
    \E k \in DOMAIN bot.tasks, placed \in BOOLEAN :
        /\ bot.tasks[k].pc = "placeCloseOrder"
        /\ bot' = [bot EXCEPT !.tasks = ReplaceTask(@, k, NextPair(bot.tasks[k]))]
        /\ UNCHANGED <<call, state, now, heartbeatTimer, onKillSwitch, handler, steps, wf>>

\* getTopFundingRates settles: the scan is over; start() goes on after its
\* first scan and sets the scan timer
ScanEnds ==
    \E k \in DOMAIN bot.tasks :
        LET task == bot.tasks[k]
            b1 == [bot EXCEPT !.tasks = RemoveTask(@, k)]
        IN  /\ task.pc = "getTopFundingRates"
            /\ bot' = IF task.initial THEN SetScanTimer(b1) ELSE b1
            /\ UNCHANGED <<call, state, now, heartbeatTimer, onKillSwitch, handler, steps, wf>>

\* stop() leaving the heartbeat monitor's interval running
Stop_MonitorKept ==
    /\ bot.running
    /\ bot.scanTimer
    /\ bot' = [bot EXCEPT !.running = FALSE, !.scanTimer = FALSE]
    /\ UNCHANGED <<call, state, now, heartbeatTimer, onKillSwitch, handler, steps, wf>>

\* TradingBot.stop, on SIGINT or SIGTERM once start() listens for them
Stop ==
    /\ bot.running
    /\ bot.scanTimer
    /\ bot' = [bot EXCEPT !.running = FALSE, !.scanTimer = FALSE]
    /\ heartbeatTimer' = FALSE
    /\ UNCHANGED <<call, state, now, onKillSwitch, handler, steps, wf>>

\* TradingBot.killAll, the operator's kill command
KillAll ==
    /\ bot.running
    /\ LET m == triggerKillSwitch(Manager,
                    KillReason("Manual kill via Telegram", NoPct))
       IN  /\ state' = m.state
           /\ handler' = m.handler
    /\ UNCHANGED <<call, now, heartbeatTimer, onKillSwitch, steps, wf, bot>>

\* the bot's kill-switch handler (closeAllPositions when live) settles
KillSwitchHandlerSettles ==
    /\ handler.running > 0
    /\ handler' = [handler EXCEPT !.running = @ - 1]
    /\ UNCHANGED <<call, state, now, heartbeatTimer, onKillSwitch, steps, wf, bot>>

NextLive ==
    \/ Start
    \/ TimerExpires
    \/ MonitorCheck
    \/ ScanTick
    \/ KlinesResolve
    \/ KlinesReject
    \/ EntryOrderResolves
    \/ EntryOrderRejects
    \/ CloseOrderSettles
    \/ ScanEnds
    \/ Stop
    \/ KillAll
    \/ KillSwitchHandlerSettles

SpecLive == InitLive /\ [][NextLive]_vars

\* The live loop in paper-trading mode (dryRun, the default): no order is
\* placed, so a scan awaits only getKlines and getTopFundingRates.  The event
\* loop runs every callback that is due and every await settles.
InitDryRun == InitLive /\ bot.dryRun

\* The timers go on firing after the last expiry the model follows in full.
\* While trading is halted a later scan tick stamps the heartbeat and its
\* scanAll() returns at once, and a later check of the monitor finds a fresh
\* heartbeat; the model follows these at the time of that last expiry.
LaterScanTick ==
    /\ bot.scanTimer
    /\ bot.scans = MaxScans
    /\ ~isTradeAllowed(state)
    /\ state' = heartbeat(state)
    /\ call' = [op |-> "scanTick"]
    /\ UNCHANGED <<now, heartbeatTimer, onKillSwitch, handler, steps, wf, bot>>

LaterMonitorCheck ==
    /\ heartbeatTimer
    /\ bot.scanTimer
    /\ bot.scans = MaxScans
    /\ ~isTradeAllowed(state)
    /\ LET m == heartbeatCheck(Manager)
       IN  /\ state' = m.state
           /\ handler' = m.handler
    /\ call' = [op |-> "monitorCheck"]
    /\ UNCHANGED <<now, heartbeatTimer, onKillSwitch, steps, wf, bot>>

NextDryRun ==
    \/ Start
    \/ TimerExpires
    \/ MonitorCheck
    \/ ScanTick
    \/ LaterScanTick
    \/ LaterMonitorCheck
    \/ KlinesResolve
    \/ KlinesReject
    \/ ScanEnds
    \/ Stop
    \/ KillAll
    \/ KillSwitchHandlerSettles

\* timers that are set fire, awaits settle; the operator's stop and kill
\* commands need never come
FairDryRun ==
    /\ WF_vars(Start)
    /\ WF_vars(TimerExpires \/ MonitorCheck \/ ScanTick
                   \/ LaterScanTick \/ LaterMonitorCheck)
    /\ WF_vars(KlinesReject \/ KlinesResolve)
    /\ WF_vars(ScanEnds)
    /\ WF_vars(KillSwitchHandlerSettles)

SpecDryRun == InitDryRun /\ [][NextDryRun]_vars /\ FairDryRun

----------------------------------------------------------------------------
(* The live loop followed over minutes, longer than heartbeatTimeoutMs, in   *)
(* paper-trading mode: scan ticks and checks of the heartbeat monitor, the   *)
(* scans failing (getKlines rejects) or skipped (after the operator's kill). *)

LongScans == 6
LongChecks == 12

LongTimerExpires == TimerExpiresWithin(LongScans, LongChecks)
LongMonitorCheck == MonitorCheckWithin(LongChecks)
LongScanTick == ScanTickWithin(LongScans)

NextLongLive ==
    \/ Start
    \/ LongTimerExpires
    \/ LongMonitorCheck
    \/ LongScanTick
    \/ KlinesReject
    \/ ScanEnds
    \/ KillAll
    \/ KillSwitchHandlerSettles

SpecLongLive == InitDryRun /\ [][NextLongLive]_vars

----------------------------------------------------------------------------
(* Properties of the live loop *)

\* C9: checkTrade rejects a trade on a symbol without a position once
\* maxConcurrentPositions positions are open, and so, in the live loop, where an
\* allowing checkTrade for the symbol precedes every openPosition, the number of
\* open positions never exceeds maxConcurrentPositions.
C9_PositionsWithinMax == PositionsSize(state) <= maxConcurrentPositions

\* a daily-drawdown halt that the daily reset is due to lift
DailyHaltDue ==
    /\ bot.running
    /\ state.isHalted
    /\ ~state.killSwitchTriggered
    /\ now >= state.dailyResetAt

TradingResumed ==
    /\ state.dailyPnL = Zero
    /\ ~state.isHalted
    /\ isTradeAllowed(state)

\* C11: a daily-drawdown halt is lifted automatically at the daily reset: once
\* the clock has passed dailyResetAt the running live loop eventually has
\* dailyPnL = 0 and isHalted = false, and trading is allowed again.
C11_DailyHaltLifted == DailyHaltDue ~> (TradingResumed \/ ~bot.running \/ state.killSwitchTriggered)


\* the budget calculateSimplePositionSize works with once the weekly limit is breached
ReducedRiskAmount(s) ==
    RMul(RMul(s.currentEquity, maxRiskPerTrade), weeklyReductionFactor)

\* C12: the weekly reset zeroes weeklyPnL and never lifts a weekly size
\* reduction: when sizes were reduced before a step in which the weekly reset
\* happens, and the equity is the same after it, sizes are still reduced.
C12_WeeklyReductionSurvivesReset ==
    [][ ( /\ isWeeklyBreached(state)
          /\ state'.weeklyResetAt # state.weeklyResetAt
          /\ state'.currentEquity = state.currentEquity )
        => /\ state'.weeklyPnL = Zero
           /\ calculateSimplePositionSize(state', R(100), R(95), 1).riskAmount
                  = ReducedRiskAmount(state') ]_vars


\* a scan whose closing order for its pair has not succeeded (yet, or ever)
ClosePending(task) == task.pc = "placeCloseOrder"

\* C13: the live loop mutates the RiskManager's position and equity state only
\* after the exchange order has succeeded: an entry order that fails opens no
\* position, and a position whose closing order has not succeeded is still
\* tracked (so it still is when that order fails).
C13_MutatedOnlyAfterOrder ==
    /\ [][EntryOrderRejects => state' = state]_vars
    /\ [](\A k \in DOMAIN bot.tasks :
              ClosePending(bot.tasks[k]) => HasPosition(state, Pairs[bot.tasks[k].i]))


\* two scans have both passed checkTrade for the same pair and have their
\* entry orders with the exchange
TwoEntryOrders ==
    \E k, j \in DOMAIN bot.tasks :
        /\ k # j
        /\ bot.tasks[k].pc = "placeOrder"
        /\ bot.tasks[j].pc = "placeOrder"
        /\ bot.tasks[k].i = bot.tasks[j].i

\* a step records no position: every position tracked after it was tracked before
NoPositionRecorded ==
    \A symbol \in DOMAIN state'.positions :
        /\ HasPosition(state, symbol)
        /\ state'.positions[symbol] = state.positions[symbol]

\* C14: the activities that touch RiskState are serialized, so that two
\* overlapping scan ticks never both pass checkTrade and place entry orders for
\* the same symbol, and no position is recorded once the kill switch has latched.
C14_Serialized ==
    /\ []~TwoEntryOrders
    /\ [][state.killSwitchTriggered => NoPositionRecorded]_vars


\* C15 as stated: peakEquity is a monotonic running maximum: no RiskManager
\* operation, resetKillSwitch with or without a new equity included, decreases it.
C15_PeakEquityMonotonic == [][RLe(state.peakEquity, state'.peakEquity)]_vars

\* C15: peakEquity never decreases across any operation other than a
\* resetKillSwitch that is given a new equity; that one reseeds currentEquity
\* and peakEquity with the new equity, higher or lower.
C15_PeakEquityMonotonicUntilReseeded ==
    [][ IF call'.op = "resetKillSwitch" /\ call'.newEquity # NullNum
        THEN /\ state'.peakEquity = call'.newEquity
             /\ state'.currentEquity = call'.newEquity
        ELSE RLe(state.peakEquity, state'.peakEquity) ]_vars

\* the peak had risen to 1050 by a profitable close, and a reset reseeded it
\* with 1000
C15_Witness ==
    /\ call.op = "resetKillSwitch"
    /\ call.newEquity = R(1000)
    /\ state.peakEquity = R(1000)
    /\ state.equityHistory[Len(state.equityHistory)] = R(1050)

\* C16 as stated: the quotient (currentEquity - peakEquity) / peakEquity is <= 0
\* in every state.
C16_QuotientNonPositive == JsLe(TotalDrawdown(state), Zero)

\* C16: currentEquity never exceeds peakEquity, and the drawdown that
\* getCurrentDrawdown reports (the quotient while peakEquity > 0, else 0) is
\* <= 0 in every state.
C16_DrawdownNonPositive ==
    /\ RLe(state.currentEquity, state.peakEquity)
    /\ RLe(getCurrentDrawdown(state).percent, Zero)

\* the equity was reseeded with 0 and then reported as 850: the peak follows
C16_Witness ==
    /\ call.op = "updateEquity"
    /\ state.peakEquity = R(850)
    /\ state.startingEquity = R(1000)
    /\ state.totalPnL = R(-150)


\* C17: equityHistory never holds more than 1000 samples: closePosition and
\* updateEquity each append one and the oldest are dropped first.
C17_HistoryCapped == Len(state.equityHistory) <= HistoryCap


\* the P&L the specification gives for position p closed at exitPrice
DirectionalPnL(p, exitPrice) ==
    LET up == RMul(RMul(RSub(exitPrice, p.entryPrice), p.quantity), R(p.leverage))
    IN  IF p.side = "long" THEN up ELSE RSub(Zero, up)

\* C18: closePosition on an open position returns
\* (exitPrice - entryPrice) * quantity * leverage for a long and the negation
\* for a short, adds it to currentEquity and totalPnL, and to dailyPnL and
\* weeklyPnL unless the daily (weekly) reset is due at the call, which leaves
\* dailyPnL (weeklyPnL) at 0; it raises peakEquity to currentEquity if
\* exceeded, removes that position and leaves the others.  On a symbol
\* without a position it returns 0 and changes no state.
C18_CloseRealizesPnlThenResets ==
    [][ call'.op = "closePosition" =>
          IF HasPosition(state, call'.symbol)
          THEN LET pnl == DirectionalPnL(state.positions[call'.symbol], call'.exitPrice)
                   dailyDue == now >= state.dailyResetAt
                   weeklyDue == now >= state.weeklyResetAt
               IN  /\ call'.pnl = pnl
                   /\ state'.currentEquity = RAdd(state.currentEquity, pnl)
                   /\ state'.dailyPnL =
                          IF dailyDue THEN Zero ELSE RAdd(state.dailyPnL, pnl)
                   /\ state'.weeklyPnL =
                          IF weeklyDue THEN Zero ELSE RAdd(state.weeklyPnL, pnl)
                   /\ state'.totalPnL = RAdd(state.totalPnL, pnl)
                   /\ state'.peakEquity =
                          IF RGt(state'.currentEquity, state.peakEquity)
                          THEN state'.currentEquity ELSE state.peakEquity
                   /\ ~HasPosition(state', call'.symbol)
                   /\ \A x \in Symbols \ {call'.symbol} :
                          /\ HasPosition(state', x) = HasPosition(state, x)
                          /\ HasPosition(state, x)
                                 => state'.positions[x] = state.positions[x]
          ELSE /\ call'.pnl = Zero
               /\ state' = state
               /\ handler' = handler
      ]_vars

\* the long 5 at 100 with leverage 1 was closed at 110 from equity 1000, no
\* reset being due, and another position is still open
C18_Witness ==
    /\ call.op = "closePosition"
    /\ call.pnl = R(50)
    /\ state.currentEquity = R(1050)
    /\ state.peakEquity = R(1050)
    /\ state.totalPnL = R(50)
    /\ state.dailyPnL = R(50)
    /\ state.weeklyPnL = R(50)
    /\ ~HasPosition(state, call.symbol)
    /\ \E x \in Symbols : HasPosition(state, x)

\* C18 as stated: the pnl is added to dailyPnL and weeklyPnL at every close
C18_CloseRealizesPnl ==
    [][ call'.op = "closePosition" =>
          IF HasPosition(state, call'.symbol)
          THEN LET pnl == DirectionalPnL(state.positions[call'.symbol], call'.exitPrice)
               IN  /\ call'.pnl = pnl
                   /\ state'.currentEquity = RAdd(state.currentEquity, pnl)
                   /\ state'.dailyPnL = RAdd(state.dailyPnL, pnl)
                   /\ state'.weeklyPnL = RAdd(state.weeklyPnL, pnl)
                   /\ state'.totalPnL = RAdd(state.totalPnL, pnl)
                   /\ state'.peakEquity =
                          IF RGt(state'.currentEquity, state.peakEquity)
                          THEN state'.currentEquity ELSE state.peakEquity
                   /\ ~HasPosition(state', call'.symbol)
                   /\ \A x \in Symbols \ {call'.symbol} :
                          /\ HasPosition(state', x) = HasPosition(state, x)
                          /\ HasPosition(state, x)
                                 => state'.positions[x] = state.positions[x]
          ELSE /\ call'.pnl = Zero
               /\ state' = state
               /\ handler' = handler
      ]_vars


\* C19: a position sized by calculateSimplePositionSize and opened with the
\* returned quantity and the same leverage, then closed at its stop price,
\* realizes a loss equal to the budgeted riskAmount, whatever the leverage.
C19_StopLossLosesBudget ==
    [][ (/\ call.op = "sizedOpen"
         /\ call'.op = "closePosition"
         /\ call'.symbol = call.symbol
         /\ call'.exitPrice = call.stopPrice)
            => call'.pnl = RSub(Zero, call.riskAmount)
      ]_vars


\* windows of the run flagged as overfit
FlaggedWindows == Cardinality({i \in 1..Len(wf.windows) : wf.windows[i].isOverfit})

\* C20: the walk-forward verdict is the first match of: an overfit reason
\* (more than half of the windows flagged, or avgDegradation > 50, or oosSharpe
\* above maxSharpeThreshold) gives FAIL; fewer out-of-sample trades than
\* minTrades give WARNING; a negative compounded out-of-sample return gives
\* FAIL; avgDegradation > 30 gives WARNING; otherwise PASS.
C20_VerdictOrder ==
    wf.aggregate # NoAggregate =>
        LET a == wf.aggregate
            overfit == \/ 2 * FlaggedWindows > Len(wf.windows)
                       \/ RGt(a.avgDegradation, R(50))
                       \/ SharpeGt(a.oosSharpe, maxSharpeThreshold)
        IN  /\ a.isOverfit = overfit
            /\ a.verdict = CASE overfit -> "FAIL"
                             [] ~overfit /\ a.totalTrades < minTrades -> "WARNING"
                             [] ~overfit /\ a.totalTrades >= minTrades
                                /\ RLt(a.oosReturnPct, Zero) -> "FAIL"
                             [] ~overfit /\ a.totalTrades >= minTrades
                                /\ ~RLt(a.oosReturnPct, Zero)
                                /\ RGt(a.avgDegradation, R(30)) -> "WARNING"
                             [] OTHER -> "PASS"

\* a run without an overfit reason, short of trades and losing money: WARNING
C20_Witness ==
    /\ wf.aggregate # NoAggregate
    /\ ~wf.aggregate.isOverfit
    /\ wf.aggregate.totalTrades < minTrades
    /\ RLt(wf.aggregate.oosReturnPct, Zero)
    /\ wf.aggregate.verdict = "WARNING"


\* C21: run() on a candle sequence too short for any window returns the
\* verdict FAIL, and for no length does it raise an error.
C21_ShortInputFails ==
    /\ wf.pc # "threw"
    /\ (wf.pc = "done" /\ wf.windows = << >>) => wf.aggregate.verdict = "FAIL"


\* C22: for N >= inSamplePeriod + outOfSamplePeriod candles, run() produces
\* floor((N - inSamplePeriod - outOfSamplePeriod) / outOfSamplePeriod) + 1
\* windows.
C22_WindowCount ==
    (wf.pc = "done" /\ wf.candles >= wf.config.inSamplePeriod + wf.config.outOfSamplePeriod)
        => Len(wf.windows) =
              (wf.candles - wf.config.inSamplePeriod - wf.config.outOfSamplePeriod)
                  \div wf.config.outOfSamplePeriod + 1

\* a run with inSample = 100, outOfSample = 50 on 299 candles ended with 3 windows
C22_Witness ==
    /\ wf.pc = "done"
    /\ wf.config = [inSamplePeriod |-> 100, outOfSamplePeriod |-> 50]
    /\ wf.candles = 299
    /\ Len(wf.windows) = 3

\* C24: the i-th window's in-sample span is [start, start + inSamplePeriod)
\* with start advancing by outOfSamplePeriod from 0, its out-of-sample span
\* begins where the in-sample span ends, and the out-of-sample spans of
\* successive windows do not overlap.
C24_WindowSpans ==
    \A i \in 1..Len(wf.windows) :
        LET w == wf.windows[i]
        IN  /\ w.inSampleStart = (i - 1) * wf.config.outOfSamplePeriod
            /\ w.inSampleEnd = w.inSampleStart + wf.config.inSamplePeriod
            /\ w.outOfSampleStart = w.inSampleEnd
            /\ w.outOfSampleStart < w.outOfSampleEnd
            /\ i > 1 => wf.windows[i - 1].outOfSampleEnd <= w.outOfSampleStart

\* a run ended with three windows, the out-of-sample spans adjoining
C24_Witness ==
    /\ wf.pc = "done"
    /\ Len(wf.windows) = 3
    /\ wf.windows[3].inSampleStart = 2 * wf.config.outOfSamplePeriod
    /\ wf.windows[2].outOfSampleEnd = wf.windows[3].outOfSampleStart


\* C30: a run of exactly one window has an oosSharpe equal to that window's
\* out-of-sample return percent, and is overfit with verdict FAIL when that
\* return exceeds maxSharpeThreshold, whatever its trades and degradation.
C30_SingleWindowSharpe ==
    (wf.pc = "done" /\ Len(wf.windows) = 1) =>
        LET r == wf.windows[1].oosReturn
            sharpe == wf.aggregate.oosSharpe
        IN  /\ sharpe.square = RMul(r, r)
            /\ sharpe.sign = (IF RGt(r, Zero) THEN 1 ELSE IF RLt(r, Zero) THEN -1 ELSE 0)
            /\ RGt(r, R(maxSharpeThreshold))
                   => /\ wf.aggregate.isOverfit
                      /\ "sharpe" \in wf.aggregate.overfitReasons
                      /\ wf.aggregate.verdict = "FAIL"

\* one window with enough trades, no degradation and 30 percent out of sample: FAIL
C30_Witness ==
    /\ wf.pc = "done"
    /\ Len(wf.windows) = 1
    /\ wf.windows[1].oosReturn = R(30)
    /\ wf.windows[1].oosTrades >= minTrades
    /\ wf.windows[1].degradationPct = Zero
    /\ wf.aggregate.overfitReasons = {"sharpe"}
    /\ wf.aggregate.verdict = "FAIL"


\* the bot was started and stop() has been called
Stopped == bot.started /\ ~bot.running

\* C23: after stop() no scan tick starts and the heartbeat monitor makes no
\* further check, so the dead man's switch no longer triggers the kill switch;
\* stop() itself cancels no scan in progress.
C23_StopSuppressesTicks ==
    [][ /\ Stopped => /\ Stopped'
                      /\ bot'.scans = bot.scans
                      /\ bot'.checks = bot.checks
                      /\ Len(bot'.tasks) <= Len(bot.tasks)
                      /\ ~bot'.scanTimer
                      /\ ~heartbeatTimer'
                      /\ state'.lastHeartbeat = state.lastHeartbeat
                      /\ state'.haltReason.text # "heartbeat timeout"
                             \/ state'.haltReason = state.haltReason
        /\ (~Stopped /\ Stopped') => (bot'.tasks = bot.tasks /\ state' = state)
      ]_vars

\* stop() has been called and an entry order placed before it is still pending
C23_Witness ==
    /\ Stopped
    /\ \E k \in DOMAIN bot.tasks : bot.tasks[k].pc = "placeOrder"


\* scans in progress that wait for an order they sent to the exchange
OrdersPending(b) ==
    Cardinality({k \in DOMAIN b.tasks : b.tasks[k].pc \in {"placeOrder", "placeCloseOrder"}})

\* C29: while isTradeAllowed is false (halt or kill switch) a scan tick
\* analyses no pair, and the live loop issues no order and opens or closes no
\* position.
C29_NoTradingWhileHalted ==
    [][ ~isTradeAllowed(state)
            => /\ state'.positions = state.positions
               /\ OrdersPending(bot') <= OrdersPending(bot)
               /\ bot'.scans > bot.scans => bot'.tasks = bot.tasks
      ]_vars


\* the kill switch was triggered by the heartbeat monitor
DeadManFired(s) == s.killSwitchTriggered /\ s.haltReason.text = "heartbeat timeout"

\* C28: every scan-timer tick stamps the heartbeat, whether its scan runs or
\* is skipped because trading is halted, and once the scan timer fires (every
\* scanIntervalMs, less than heartbeatTimeoutMs) no check of the heartbeat
\* monitor triggers the kill switch, even if every scan fails.
C28_TicksKeepAlive ==
    [][ /\ bot'.scans > bot.scans => state'.lastHeartbeat = now
        /\ (bot.scanTimer /\ bot.scans >= 1 /\ bot'.checks > bot.checks)
               => (DeadManFired(state') => DeadManFired(state))
      ]_vars

\* more than heartbeatTimeoutMs after the start, the scans having failed or
\* been skipped, the monitor has checked and the dead man's switch has not fired
C28_Witness ==
    /\ bot.scanTimer
    /\ bot.scans >= 5
    /\ bot.checks >= 11
    /\ \A t \in BotStartTimes : now - t > heartbeatTimeoutMs
    /\ ~DeadManFired(state)


FreshCrossover(c) ==
    \/ c.prevFastEMA <= c.prevSlowEMA /\ c.fastEMA > c.slowEMA
    \/ c.prevFastEMA >= c.prevSlowEMA /\ c.fastEMA < c.slowEMA

\* C26: on a candle where a golden cross or a death cross has just occurred,
\* analyzeTrend never answers CLOSE_LONG or CLOSE_SHORT.
C26_NoCloseOnCrossover ==
    (call.op = "analyzeTrend" /\ FreshCrossover(call.input))
        => call.signal.action \notin {"CLOSE_LONG", "CLOSE_SHORT"}

\* the ledger reads BUY, SELL, BUY, ... from its first trade on
Alternates(trades) ==
    \A k \in 1..Len(trades) :
        trades[k].type = (IF k % 2 = 1 THEN "BUY" ELSE "SELL")

\* every pair the win/loss loop visits is a BUY and the SELL that closed it
PairsMatch(trades) ==
    \A k \in PairedTrades(trades) :
        /\ trades[k].type = "BUY"
        /\ trades[k + 1].type = "SELL"
        /\ trades[k + 1].quantity = trades[k].quantity

\* C27: for a Backtester constructed with a positive balance, any strategy
\* (repeated BUY or repeated SELL signals included) and any candles with
\* positive close prices, the trade ledger strictly alternates BUY, SELL,
\* BUY, ... starting with a BUY, and the win/loss pairing of trades
\* (2k, 2k+1) pairs a BUY with the SELL that closed it.
C27_LedgerAlternates ==
    (call.op = "backtest" /\ RGt(call.initialBalance, Zero))
        => /\ Alternates(call.trades)
           /\ PairsMatch(call.trades)
           /\ call.pc = "done"
                  => call.winningTrades + call.losingTrades = Len(call.trades) \div 2

\* a finished run with a positive balance where the strategy said BUY twice
\* in a row while holding, SELL twice in a row, and three trades were made
C27_Witness ==
    /\ call.op = "backtest"
    /\ call.pc = "done"
    /\ RGt(call.initialBalance, Zero)
    /\ Len(call.trades) >= 3
    /\ \E i \in 1..(Len(call.signals) - 1) :
           call.signals[i] = "BUY" /\ call.signals[i + 1] = "BUY"
    /\ \E i \in 1..(Len(call.signals) - 1) :
           call.signals[i] = "SELL" /\ call.signals[i + 1] = "SELL"

\* C27 as stated, for any Backtester: the trade ledger strictly alternates
\* BUY, SELL, BUY, ... starting with a BUY and every visited pair is a BUY
\* with the SELL that closed it.
C27_LedgerAlternatesAnyBalance ==
    call.op = "backtest"
        => Alternates(call.trades) /\ PairsMatch(call.trades)


============================================================================
